---------------------------- MODULE Spec2Model ----------------------------
(***************************************************************************)
(* A model of the EventHub class of fabric-client/lib/EventHub.js: the     *)
(* connection state machine, the three registries of listeners and the     *)
(* dispatch of inbound blocks.                                             *)
(*                                                                         *)
(* JavaScript runs one handler at a time, to completion.  Every action of  *)
(* the model is therefore one whole top-level entry into the hub (an API   *)
(* call by the application, an inbound stream event, a timer expiry),      *)
(* computed by operators that follow the code statement by statement,      *)
(* including the calls back into the hub that a listener callback makes    *)
(* while the handler is running.                                           *)
(***************************************************************************)
EXTENDS Naturals, Sequences, FiniteSets, TLC

(***************************************************************************)
(* Bounds of the model.                                                    *)
(***************************************************************************)
\* registrations made over the life of one hub (each gets a listener id)
MaxListeners == 2
\* streams opened over the life of one hub
MaxStreams == 2
\* nesting of hub calls made from callbacks before the JavaScript call stack
\* is exhausted (RangeError: Maximum call stack size exceeded)
MaxDepth == 2
\* envelopes in one inbound block
MaxEnvs == 1
\* registrations made over the life of a hub whose callbacks register and
\* unregister listeners
MaxMutationListeners == 3
\* envelopes in one block sent to such a hub
MaxMutationEnvs == 2
\* calls of Member.register over the life of one member
MaxRegisterCalls == 2

(***************************************************************************)
(* Program constants.                                                      *)
(***************************************************************************)
\* grpc connectivity state READY, the literal of _checkConnection
READY == 2
\* the connectivity state _checkConnection starts from (grpc's IDLE)
IDLE == 0
\* this.force_reconnect, set by the constructor and never changed
force_reconnect == TRUE
\* the tables built when the module is loaded, for the codes the model uses
_validation_codes == (0 :> "VALID" @@ 11 :> "MVCC_READ_CONFLICT")
_header_types == (1 :> "CONFIG" @@ 3 :> "ENDORSER_TRANSACTION")
convertValidationCode(code) == _validation_codes[code]

NoExc == "none"
\* an argument that was not given, or is falsy: !arg holds
Missing == ""
ShutdownMsg == "EventHub has been shutdown"

(***************************************************************************)
(* What a callback supplied by the application does when the hub invokes   *)
(* it.  "none" stands for an onError that was not supplied.                *)
(*   ret        returns without touching the hub                           *)
(*   disconnect calls hub.disconnect()                                     *)
(*   connect    calls hub.connect()                                        *)
(*   throw      throws an error of its own                                 *)
(*   unregisterBlockN  calls hub.unregisterBlockEvent(N)                   *)
(*   unregisterCcN     calls hub.unregisterChaincodeEvent(cbe), cbe the    *)
(*                     handle of the listener with id N                    *)
(*   register   calls hub.registerChaincodeEvent(CallbackCcId, '.*', f)    *)
(*              with an f that returns                                     *)
(***************************************************************************)
\* the block registration number a callback unregisters
UnregisterBlock == [unregisterBlock1 |-> 1, unregisterBlock2 |-> 2, unregisterBlock3 |-> 3]
\* the listener whose handle a callback gives to unregisterChaincodeEvent
UnregisterCc == [unregisterCc1 |-> 1, unregisterCc2 |-> 2, unregisterCc3 |-> 3]
\* the chaincode id of the handles and of the registrations of callbacks
CallbackCcId == "cc1"

Profiles ==
  { [ev |-> "ret",        er |-> "none"],
    [ev |-> "ret",        er |-> "ret"],
    [ev |-> "disconnect", er |-> "ret"],
    [ev |-> "ret",        er |-> "disconnect"],
    [ev |-> "ret",        er |-> "connect"] }

TxIds == {"tx1"}
CcIds == {"cc1"}
Patterns == {"evtA", ".*"}

\* RegExp(filter).test(name) for the patterns and event names of the model
RegExpTest(filter, name) == filter = ".*" \/ filter = name

\* actions is the length of payload.data.actions, as far as the hub reads it
Envelopes ==
  { [type |-> "ENDORSER_TRANSACTION", tx_id |-> "tx1", code |-> 0, actions |-> 1,
     chaincode_id |-> "cc1", event_name |-> "evtA"],
    [type |-> "CONFIG", tx_id |-> "tx2", code |-> 11, actions |-> 0,
     chaincode_id |-> "", event_name |-> ""] }

RECURSIVE SeqsUpTo(_, _)
SeqsUpTo(S, n) ==
  IF n = 0 THEN {<<>>}
  ELSE LET T == SeqsUpTo(S, n - 1)
       IN T \cup {Append(t, e) : t \in {u \in T : Len(u) = n - 1}, e \in S}

\* decoded blocks: block.data.data, with the validation code of each envelope
Blocks == SeqsUpTo(Envelopes, MaxEnvs) \ {<<>>}

\* messages a peer sends on the stream (event.Event)
Events ==
  {[Event |-> "block", block |-> b] : b \in Blocks}
    \cup {[Event |-> e, block |-> <<>>] : e \in {"register", "unregister", "other"}}

Perms(S) == {f \in [S -> S] : \A a, b \in S : f[a] = f[b] => a = b}

VARIABLES
  hub,      \* the fields of the EventHub object
  sets,     \* the Set objects the chaincodeRegistrants table points to
  streams,  \* the streams opened so far, as the peer and the timers see them
  nlis,     \* listener ids handed out so far
  op,       \* the handler that has just run: its name, arguments and outcome
  pre,      \* the hub and the streams as that handler found them
  log,      \* what that handler did: callbacks invoked, writes, in order
  out,      \* what a call of the block decoder has handed back to its caller
  member,   \* the fields of a Member object
  services, \* what the member works with: its member services, its key
            \* value store, the promises its register calls returned
  ca        \* the FabricCAClient built last, and the connect_opts it got

vars == <<hub, sets, streams, nlis, op, pre, log, out, member, services, ca>>

Empty == [x \in {} |-> 0]

\* constructor.  signing: the user context of this._clientContext has a
\* signing identity (the constructor only checks that there is a user context)
NewHub ==
  [chaincodeRegistrants |-> Empty,
   block_registrant_count |-> 1,
   blockOnEvents |-> Empty,
   blockOnErrors |-> Empty,
   transactionOnEvents |-> Empty,
   transactionOnErrors |-> Empty,
   ep |-> FALSE,
   stream |-> 0,
   connected |-> FALSE,
   signing |-> TRUE]

(***************************************************************************)
(* The state a handler works on: the hub's fields, the heap of Sets, the   *)
(* streams, and what the handler has done so far (log), thrown (exc),      *)
(* returned (ret); ovf says that a bound of the model was exceeded.        *)
(***************************************************************************)
\* nothing handed back
NoOutput == [returned |-> FALSE, value |-> <<>>]

\* cap: the registrations the handler may bring the hub to, MaxListeners
\* unless the action that starts the handler says otherwise
Start ==
  [hub |-> hub, sets |-> sets, streams |-> streams, nlis |-> nlis,
   log |-> <<>>, exc |-> NoExc, ret |-> 0, ovf |-> FALSE, cap |-> MaxListeners]

Throw(m, e) == [m EXCEPT !.exc = e]
Emit(m, e) == [m EXCEPT !.log = Append(@, e)]
Ok(m) == m.exc = NoExc /\ ~m.ovf

\* statement sequencing: K goes on from m unless m has thrown
Bind(m, K(_)) == IF Ok(m) THEN K(m) ELSE m

Remove(f, k) == [x \in DOMAIN f \ {k} |-> f[x]]
Put(f, k, v) == [x \in DOMAIN f \cup {k} |-> IF x = k THEN v ELSE f[x]]

\* the listener ids held by the three registries
IdsOfSet(s) == {s[i].id : i \in {j \in DOMAIN s : s[j].id # 0}}
RegisteredIds(m) ==
  {m.hub.blockOnEvents[k].id : k \in DOMAIN m.hub.blockOnEvents}
    \cup {m.hub.blockOnErrors[k].id : k \in DOMAIN m.hub.blockOnErrors}
    \cup {m.hub.transactionOnEvents[k].id : k \in DOMAIN m.hub.transactionOnEvents}
    \cup {m.hub.transactionOnErrors[k].id : k \in DOMAIN m.hub.transactionOnErrors}
    \cup UNION {IdsOfSet(m.sets[m.hub.chaincodeRegistrants[c]]) : c \in DOMAIN m.hub.chaincodeRegistrants}
\* those of them that have an onError
ErrorIds(m) ==
  {m.hub.blockOnErrors[k].id : k \in DOMAIN m.hub.blockOnErrors}
    \cup {m.hub.transactionOnErrors[k].id : k \in DOMAIN m.hub.transactionOnErrors}
    \cup UNION {{s[i].id : i \in {j \in DOMAIN s : s[j].id # 0 /\ s[j].onError # "none"}} :
                  s \in {m.sets[m.hub.chaincodeRegistrants[c]] : c \in DOMAIN m.hub.chaincodeRegistrants}}


(***************************************************************************)
(* The stream, as the hub uses it.                                         *)
(***************************************************************************)
\* this.stream.write(signedEvent); the entry says whether the stream had
\* been ended before
stream_write(m, kind) ==
  Emit(m, <<"write", m.hub.stream, kind, m.streams[m.hub.stream].ended>>)

\* this.stream.end()
stream_end(m) ==
  Emit([m EXCEPT !.streams[m.hub.stream].ended = TRUE],
       <<"end", m.hub.stream, m.streams[m.hub.stream].ended>>)

\* _sendRegistration(register): builds and signs the request, writes it;
\* user.getSigningIdentity().sign is a TypeError without a signing identity
_sendRegistration(m, register) ==
  IF ~m.hub.signing THEN Throw(m, "TypeError")
  ELSE stream_write(m, IF register THEN "register" ELSE "unregister")

\* clearTimeout(send_timeout) of the stream whose handler runs
clearTimeout(m, s) == [m EXCEPT !.streams[s].timer = FALSE]

(***************************************************************************)
(* _connect(force): lines 164-220.  A stream is a record: timer (the       *)
(* send_timeout armed for it is pending), ended (the hub called end() on   *)
(* it), rd (the peer's side: "live" until the stream emits 'end', "done"   *)
(* after).                                                                 *)
(***************************************************************************)
NewStream == [timer |-> TRUE, ended |-> FALSE, rd |-> "live"]

\* lines 174-182: the timer, the stream, the flag
OpenStream(m, s) ==
  [m EXCEPT !.streams = Append(@, NewStream),
            !.hub.stream = s,
            !.hub.connected = TRUE,
            !.log = @ \o << <<"setTimeout", s>>, <<"open", s>> >>]

\* _connect as it would be without the guard of lines 166-169
_connect_unguarded(m, force) ==
  IF ~m.hub.ep THEN Throw(m, "Must set peer address before connecting.")
  ELSE IF Len(m.streams) >= MaxStreams THEN [m EXCEPT !.ovf = TRUE]
  ELSE _sendRegistration(OpenStream(m, Len(m.streams) + 1), TRUE)

\* _connect as it would be without the check of line 170
_connect_unchecked(m, force) ==
  IF ~force /\ m.hub.connected THEN m
  ELSE IF Len(m.streams) >= MaxStreams THEN [m EXCEPT !.ovf = TRUE]
  ELSE _sendRegistration(OpenStream(m, Len(m.streams) + 1), TRUE)

_connect(m, force) ==
  IF ~force /\ m.hub.connected THEN m
  ELSE IF ~m.hub.ep THEN Throw(m, "Must set peer address before connecting.")
  ELSE IF Len(m.streams) >= MaxStreams THEN [m EXCEPT !.ovf = TRUE]
  ELSE _sendRegistration(OpenStream(m, Len(m.streams) + 1), TRUE)

\* connect()
connect(m) == _connect(m, FALSE)

RECURSIVE disconnect(_, _, _)
RECURSIVE HashTableForEach(_, _, _, _, _, _, _, _)
RECURSIVE SetForEach(_, _, _, _, _, _, _)
RECURSIVE unregisterBlockEvent(_, _)
RECURSIVE unregisterChaincodeEvent(_, _)
RECURSIVE registerChaincodeEvent(_, _, _, _, _, _, _)
RECURSIVE ChainCodeCBE(_, _, _, _, _)

\* the listener a call of unregisterBlockEvent(n), or of
\* unregisterChaincodeEvent with the handle of listener k, finds and
\* removes; 0 when it finds none
BlockTarget(m, n) ==
  IF n \in DOMAIN m.hub.blockOnEvents THEN m.hub.blockOnEvents[n].id ELSE 0
CcTarget(m, k) ==
  IF /\ CallbackCcId \in DOMAIN m.hub.chaincodeRegistrants
     /\ k \in IdsOfSet(m.sets[m.hub.chaincodeRegistrants[CallbackCcId]])
    THEN k ELSE 0

(***************************************************************************)
(* The hub invokes a callback of the application: kind is "err" (an        *)
(* onError, with the shutdown error) or "evt" (an onEvent).  The callback  *)
(* does what its behaviour b says; it catches nothing, so what the hub     *)
(* throws at it comes back to the hub.  A call that would nest deeper than *)
(* the call stack allows throws RangeError.                                *)
(***************************************************************************)
Run(m, b, o, d) ==
  CASE b = "ret" -> m
    [] b = "throw" -> Throw(m, "CallbackError")
    [] b \in DOMAIN UnregisterBlock ->
         unregisterBlockEvent(Emit(m, <<"unreg", BlockTarget(m, UnregisterBlock[b])>>),
                              UnregisterBlock[b])
    [] b \in DOMAIN UnregisterCc ->
         unregisterChaincodeEvent(Emit(m, <<"unreg", CcTarget(m, UnregisterCc[b])>>),
                                  ChainCodeCBE(UnregisterCc[b], CallbackCcId, ".*", "ret", "none"))
    [] d >= MaxDepth -> Throw(m, "RangeError")
    [] b = "disconnect" -> disconnect(m, o, d + 1)
    [] b = "connect" -> connect(m)
    [] b = "register" ->
         registerChaincodeEvent(Emit(m, <<"reg", m.nlis + 1>>), CallbackCcId, ".*", "ret", "none", o, d + 1)

Invoke(m, cb, kind, o, d) == Run(Emit(m, <<kind, cb.id>>), cb.b, o, d)

\* the callback Set.forEach gets: of cc_closer (lines 284-289) when what is
\* "err", of _processChainCodeOnEvents (lines 580-584) when it is "evt"
InvokeCbe(m, cbe, what, name, o, d) ==
  IF cbe.id = 0 THEN m
  ELSE IF what = "err"
    THEN IF cbe.onError # "none" THEN Invoke(m, [id |-> cbe.id, b |-> cbe.onError], "err", o, d) ELSE m
    ELSE IF RegExpTest(cbe.eventNameFilter, name)
           THEN Invoke(m, [id |-> cbe.id, b |-> cbe.onEvent], "evt", o, d)
           ELSE m

(***************************************************************************)
(* Set.prototype.forEach over the Set object sid: the entries in insertion *)
(* order, read as they are when their turn comes (a deleted entry is an    *)
(* empty slot, an added one is appended and visited too).                  *)
(***************************************************************************)
SetForEach(m, sid, i, what, name, o, d) ==
  IF i > Len(m.sets[sid]) THEN m
  ELSE Bind(InvokeCbe(m, m.sets[sid][i], what, name, o, d),
            LAMBDA x : SetForEach(x, sid, i + 1, what, name, o, d))

(***************************************************************************)
(* HashTable.forEach(f) of the hashtable module, a native unordered map.   *)
(* snap is the table when the iteration began, visited the keys done,      *)
(* last the key whose callback ran last.  While the table is unchanged the *)
(* iteration visits every entry once, in the order o.ord.  An entry        *)
(* removed before its turn is not visited.  Inserting under the iteration, *)
(* or removing the entry the iterator stands on, invalidates the iterator: *)
(* what follows is o.ub's choice.  what: "err" and "evt" call the entry    *)
(* itself, "cc" is cc_closer of _closeAllCallbacks.                        *)
(***************************************************************************)
Invalidated(cur, snap, last) ==
  (DOMAIN cur \ DOMAIN snap # {}) \/ ~(last \subseteq DOMAIN cur)

\* the entries the iteration reads
Entries(cur, snap, last, o) ==
  IF Invalidated(cur, snap, last) /\ o.ub = "stale" THEN snap ELSE cur

\* the keys still to visit
Todo(cur, snap, visited, last, o) ==
  CASE ~Invalidated(cur, snap, last) -> (DOMAIN cur \cap DOMAIN snap) \ visited
    [] o.ub = "live" -> DOMAIN cur \ visited
    [] o.ub = "stale" -> DOMAIN snap \ visited

Rank(tab, what, k, o) == IF what = "cc" THEN o.ord[tab[k]] ELSE o.ord[tab[k].id]

First(tab, what, todo, o) ==
  CHOOSE x \in todo : \A y \in todo : Rank(tab, what, x, o) <= Rank(tab, what, y, o)

VisitEntry(m, what, v, o, d) ==
  IF what = "cc" THEN SetForEach(m, v, 1, "err", "", o, d) ELSE Invoke(m, v, what, o, d)

VisitKey(m, field, what, snap, visited, tab, k, o, d) ==
  Bind(VisitEntry(m, what, tab[k], o, d),
       LAMBDA x : HashTableForEach(x, field, what, snap, visited \cup {k}, {k}, o, d))

VisitNext(m, field, what, snap, visited, tab, todo, o, d) ==
  IF todo = {} THEN m
  ELSE VisitKey(m, field, what, snap, visited, tab, First(tab, what, todo, o), o, d)

HashTableForEach(m, field, what, snap, visited, last, o, d) ==
  VisitNext(m, field, what, snap, visited,
            Entries(m.hub[field], snap, last, o),
            Todo(m.hub[field], snap, visited, last, o), o, d)

ForEach(m, field, what, o, d) ==
  HashTableForEach(m, field, what, m.hub[field], {}, {}, o, d)

(***************************************************************************)
(* _closeAllCallbacks(err): lines 265-295.  The "close" entry of the log   *)
(* keeps who was registered, and who with an onError, when it began.       *)
(***************************************************************************)
ClearBlock(m) == [m EXCEPT !.hub.blockOnEvents = Empty, !.hub.blockOnErrors = Empty]
ClearTransaction(m) == [m EXCEPT !.hub.transactionOnEvents = Empty, !.hub.transactionOnErrors = Empty]
ClearChaincode(m) == [m EXCEPT !.hub.chaincodeRegistrants = Empty]

_closeAllCallbacks(m, o, d) ==
  Bind(ForEach(Emit(m, <<"close", RegisteredIds(m), ErrorIds(m)>>), "blockOnErrors", "err", o, d),
    LAMBDA m1 : Bind(ForEach(ClearBlock(m1), "transactionOnErrors", "err", o, d),
      LAMBDA m2 : Bind(ForEach(ClearTransaction(m2), "chaincodeRegistrants", "cc", o, d),
        LAMBDA m3 : Emit(ClearChaincode(m3), <<"closed">>))))

(***************************************************************************)
(* disconnect(): lines 227-234.                                            *)
(***************************************************************************)
EndStream(m) ==
  IF m.hub.stream # 0 THEN Bind(_sendRegistration(m, FALSE), LAMBDA x : stream_end(x)) ELSE m

disconnect(m, o, d) ==
  Bind(_closeAllCallbacks([m EXCEPT !.hub.connected = FALSE], o, d), LAMBDA x : EndStream(x))

(***************************************************************************)
(* _checkConnection(throw_error, force_reconnect): lines 301-337.  The     *)
(* debug line of either branch reads this.ep.getUrl(), a TypeError when no *)
(* peer address was set; this.stream.isPaused() is a TypeError when no     *)
(* stream was ever opened, caught like any failure of the reconnect.       *)
(***************************************************************************)
\* the try block, lines 317-330
Reconnect(m, o) ==
  IF m.hub.stream = 0 THEN Throw(m, "TypeError")
  ELSE IF o.state # READY THEN _connect(m, TRUE)
  ELSE m

\* the catch block, lines 331-335
Caught(tried, o, d) ==
  IF tried.ovf \/ tried.exc = NoExc THEN tried
  ELSE Bind(disconnect([tried EXCEPT !.exc = NoExc], o, d),
            LAMBDA x : Throw(x, "Event hub is not connected "))

\* _checkConnection as it would be without the throw of lines 311-313
_checkConnection_lenient(m, throw_error, force, o, d) ==
  IF ~m.hub.ep THEN Throw(m, "TypeError")
  ELSE IF ~force THEN m
  ELSE Caught(Reconnect(m, o), o, d)

_checkConnection(m, throw_error, force, o, d) ==
  IF ~m.hub.ep THEN Throw(m, "TypeError")
  ELSE IF ~m.hub.connected /\ throw_error
    THEN Throw(m, "The event hub has not been connected to the event source")
  ELSE IF ~force THEN m
  ELSE Caught(Reconnect(m, o), o, d)

\* the registration about to be stored gets the next listener id, m.nlis
TakeId(m) == [m EXCEPT !.nlis = @ + 1, !.ovf = m.ovf \/ m.nlis >= m.cap]

(***************************************************************************)
(* registerBlockEvent(onEvent, onError): lines 422-443.  ev and er are the *)
(* behaviours of the two callbacks, er = "none" when onError is not given. *)
(***************************************************************************)
\* lines 432-433 as they would be without the ++
PutBlockOnEvent_same_number(m, ev) ==
  [m EXCEPT !.hub.blockOnEvents = Put(@, m.hub.block_registrant_count, [id |-> m.nlis, b |-> ev]),
            !.ret = m.hub.block_registrant_count]

\* lines 432-433
PutBlockOnEvent(m, ev) ==
  [m EXCEPT !.hub.block_registrant_count = @ + 1,
            !.hub.blockOnEvents = Put(@, m.hub.block_registrant_count, [id |-> m.nlis, b |-> ev]),
            !.ret = m.hub.block_registrant_count]

\* line 438
PutBlockOnError(m, er) ==
  [m EXCEPT !.hub.blockOnErrors = Put(@, m.ret, [id |-> m.nlis, b |-> er])]

\* registerBlockEvent as it would be without the check of lines 424-426
registerBlockEvent_unvalidated(m, ev, er, o, d) ==
  Bind(_checkConnection(m, er = "none", FALSE, o, d),
    LAMBDA m1 : Bind(TakeId(m1),
      LAMBDA m2 : IF er = "none" THEN PutBlockOnEvent(m2, ev)
                  ELSE _checkConnection(PutBlockOnError(PutBlockOnEvent(m2, ev), er),
                                        FALSE, force_reconnect, o, d)))

registerBlockEvent(m, ev, er, o, d) ==
  IF ev = Missing THEN Throw(m, "Missing onEvent parameter")
  ELSE Bind(_checkConnection(m, er = "none", FALSE, o, d),
    LAMBDA m1 : Bind(TakeId(m1),
      LAMBDA m2 : IF er = "none" THEN PutBlockOnEvent(m2, ev)
                  ELSE _checkConnection(PutBlockOnError(PutBlockOnEvent(m2, ev), er),
                                        FALSE, force_reconnect, o, d)))

(***************************************************************************)
(* registerTxEvent(txid, onEvent, onError): lines 473-494.                 *)
(***************************************************************************)
PutTransactionOnEvent(m, txid, ev) ==
  [m EXCEPT !.hub.transactionOnEvents = Put(@, txid, [id |-> m.nlis, b |-> ev])]

PutTransactionOnError(m, txid, er) ==
  [m EXCEPT !.hub.transactionOnErrors = Put(@, txid, [id |-> m.nlis, b |-> er])]

registerTxEvent(m, txid, ev, er, o, d) ==
  IF txid = Missing THEN Throw(m, "Missing txid parameter")
  ELSE IF ev = Missing THEN Throw(m, "Missing onEvent parameter")
  ELSE Bind(_checkConnection(m, er = "none", FALSE, o, d),
    LAMBDA m1 : Bind(TakeId(m1),
      LAMBDA m2 : IF er = "none" THEN PutTransactionOnEvent(m2, txid, ev)
                  ELSE _checkConnection(PutTransactionOnError(PutTransactionOnEvent(m2, txid, ev), txid, er),
                                        FALSE, force_reconnect, o, d)))

(***************************************************************************)
(* ChainCodeCBE (lines 51-70) and registerChaincodeEvent(ccid, eventname,  *)
(* onEvent, onError): lines 354-385.  A Set object is named by the id of   *)
(* the registration that created it; an empty slot of a Set has id 0.      *)
(***************************************************************************)
ChainCodeCBE(id, ccid, eventNameFilter, onEvent, onError) ==
  [id |-> id, ccid |-> ccid, eventNameFilter |-> eventNameFilter,
   onEvent |-> onEvent, onError |-> onError]

EmptySlot == ChainCodeCBE(0, "", "", "none", "none")

\* the handle that was not given to unregisterChaincodeEvent
NoCbe == ChainCodeCBE(0, Missing, Missing, Missing, Missing)

\* lines 371-375: the Set of the chaincode id, a new one if there is none
GetCbtable(m, ccid) ==
  IF ccid \in DOMAIN m.hub.chaincodeRegistrants THEN m
  ELSE [m EXCEPT !.sets = Put(@, m.nlis, <<>>),
                 !.hub.chaincodeRegistrants = Put(@, ccid, m.nlis)]

\* line 376; the handle returned is the entry, known by its id
AddCbe(m, cbe) ==
  [m EXCEPT !.sets[m.hub.chaincodeRegistrants[cbe.ccid]] = Append(@, cbe), !.ret = cbe.id]

registerChaincodeEvent(m, ccid, eventname, ev, er, o, d) ==
  IF ccid = Missing THEN Throw(m, "Missing ccid parameter")
  ELSE IF eventname = Missing THEN Throw(m, "Missing eventname parameter")
  ELSE IF ev = Missing THEN Throw(m, "Missing onEvent parameter")
  ELSE Bind(_checkConnection(m, er = "none", FALSE, o, d),
    LAMBDA m1 : Bind(TakeId(m1),
      LAMBDA m2 : IF er = "none"
                    THEN AddCbe(GetCbtable(m2, ccid), ChainCodeCBE(m2.nlis, ccid, eventname, ev, er))
                    ELSE _checkConnection(
                           AddCbe(GetCbtable(m2, ccid), ChainCodeCBE(m2.nlis, ccid, eventname, ev, er)),
                           FALSE, force_reconnect, o, d)))

\* Set.prototype.size and Set.prototype.delete
SetSize(s) == Cardinality({i \in DOMAIN s : s[i].id # 0})
SetDelete(s, id) == [i \in DOMAIN s |-> IF s[i].id = id THEN EmptySlot ELSE s[i]]

(***************************************************************************)
(* unregisterChaincodeEvent(cbe): lines 392-406; cbe is the handle         *)
(* registerChaincodeEvent returned, known by its id and its ccid.          *)
(***************************************************************************)
\* lines 403-405
RemoveIfEmpty(m, ccid) ==
  IF SetSize(m.sets[m.hub.chaincodeRegistrants[ccid]]) <= 0
    THEN [m EXCEPT !.hub.chaincodeRegistrants = Remove(@, ccid)]
    ELSE m

\* unregisterChaincodeEvent as it would be if it removed the table of the
\* chaincode id whatever the Set still holds
unregisterChaincodeEvent_dropping(m, cbe) ==
  IF cbe = NoCbe THEN Throw(m, "Missing cbe parameter")
  ELSE IF cbe.ccid \notin DOMAIN m.hub.chaincodeRegistrants THEN m
  ELSE [m EXCEPT !.sets[m.hub.chaincodeRegistrants[cbe.ccid]] = SetDelete(@, cbe.id),
                 !.hub.chaincodeRegistrants = Remove(@, cbe.ccid)]

unregisterChaincodeEvent(m, cbe) ==
  IF cbe = NoCbe THEN Throw(m, "Missing cbe parameter")
  ELSE IF cbe.ccid \notin DOMAIN m.hub.chaincodeRegistrants THEN m
  ELSE RemoveIfEmpty([m EXCEPT !.sets[m.hub.chaincodeRegistrants[cbe.ccid]] = SetDelete(@, cbe.id)],
                     cbe.ccid)

\* a plausible slip: the onEvent of the registration is left in its table
unregisterBlockEvent_keeping_onEvent(m, block_registration_number) ==
  IF block_registration_number = 0 THEN Throw(m, "Missing block_registration_number parameter")
  ELSE [m EXCEPT !.hub.blockOnErrors = Remove(@, block_registration_number)]

\* unregisterBlockEvent(block_registration_number): lines 451-458
unregisterBlockEvent(m, block_registration_number) ==
  IF block_registration_number = 0 THEN Throw(m, "Missing block_registration_number parameter")
  ELSE [m EXCEPT !.hub.blockOnEvents = Remove(@, block_registration_number),
            !.hub.blockOnErrors = Remove(@, block_registration_number)]

\* unregisterTxEvent(txid): lines 500-507
unregisterTxEvent(m, txid) ==
  IF txid = Missing THEN Throw(m, "Missing txid parameter")
  ELSE [m EXCEPT !.hub.transactionOnEvents = Remove(@, txid),
            !.hub.transactionOnErrors = Remove(@, txid)]

(***************************************************************************)
(* The three dispatch passes, lines 513-590.  block is block.data.data,    *)
(* each envelope with its entry of the TRANSACTIONS_FILTER metadata.       *)
(***************************************************************************)
_processBlockOnEvents(m, block, o, d) ==
  IF DOMAIN m.hub.blockOnEvents = {} THEN m
  ELSE ForEach(m, "blockOnEvents", "evt", o, d)

\* lines 544-548: the callback of the envelope's tx_id, if there is one
InvokeTx(m, tx_id, val_code, o, d) ==
  IF tx_id \in DOMAIN m.hub.transactionOnEvents
    THEN Invoke(Emit(m, <<"tx", m.hub.transactionOnEvents[tx_id].id, tx_id, val_code>>),
                m.hub.transactionOnEvents[tx_id], "evt", o, d)
    ELSE m

RECURSIVE TxLoop(_, _, _, _, _)
TxLoop(m, block, index, o, d) ==
  IF index > Len(block) THEN m
  ELSE Bind(InvokeTx(m, block[index].tx_id, convertValidationCode(block[index].code), o, d),
            LAMBDA x : TxLoop(x, block, index + 1, o, d))

_processTxOnEvents(m, block, o, d) ==
  IF DOMAIN m.hub.transactionOnEvents = {} THEN m
  ELSE TxLoop(m, block, 1, o, d)

\* a plausible slip: what the try block threw is not caught
CaughtInLoop_rethrowing(m) == m

\* the catch of lines 586-588: what the try block threw is logged
CaughtInLoop(m) ==
  IF m.ovf \/ m.exc = NoExc THEN m
  ELSE Emit([m EXCEPT !.exc = NoExc], <<"caught", m.exc>>)

RECURSIVE ChainCodeLoop(_, _, _, _, _)
ChainCodeLoop(m, block, index, o, d) ==
  IF index > Len(block) THEN m
  ELSE IF block[index].type # _header_types[3] THEN ChainCodeLoop(m, block, index + 1, o, d)
  ELSE IF block[index].actions = 0
    THEN Bind(CaughtInLoop(Throw(m, "TypeError")), LAMBDA x : ChainCodeLoop(x, block, index + 1, o, d))
  ELSE IF block[index].chaincode_id \notin DOMAIN m.hub.chaincodeRegistrants THEN m
  ELSE Bind(CaughtInLoop(SetForEach(m, m.hub.chaincodeRegistrants[block[index].chaincode_id], 1,
                                    "evt", block[index].event_name, o, d)),
            LAMBDA x : ChainCodeLoop(x, block, index + 1, o, d))

_processChainCodeOnEvents(m, block, o, d) ==
  IF DOMAIN m.hub.chaincodeRegistrants = {} THEN m
  ELSE ChainCodeLoop(m, block, 1, o, d)

(***************************************************************************)
(* The handlers _connect attaches to the stream it opens (lines 184-216)   *)
(* and the timer it arms (174-177).  s is the stream the handler was       *)
(* attached to; the handlers act on the hub as it is when they run.        *)
(***************************************************************************)
\* what BlockDecoder.decodeBlock cannot decode: an envelope of a wire type
\* it does not expect
Garbled(block) == \E i \in DOMAIN block : block[i].type = "GARBLED"

\* line 189: BlockDecoder.decodeBlock(event.block) throws on such a block
decodeBlock(m, block) ==
  IF Garbled(block) THEN Throw(m, "Block decode has failed") ELSE m

\* a plausible slip: the block listeners are served before the block is decoded
ProcessBlock_decoding_late(m, block, o) ==
  Bind(_processBlockOnEvents(m, block, o, 0),
    LAMBDA m0 : Bind(decodeBlock(m0, block),
      LAMBDA m1 : Bind(_processTxOnEvents(m1, block, o, 0),
        LAMBDA m2 : _processChainCodeOnEvents(m2, block, o, 0))))

\* lines 189-192
ProcessBlock(m, block, o) ==
  Bind(decodeBlock(m, block),
    LAMBDA m0 : Bind(_processBlockOnEvents(m0, block, o, 0),
      LAMBDA m1 : Bind(_processTxOnEvents(m1, block, o, 0),
        LAMBDA m2 : _processChainCodeOnEvents(m2, block, o, 0))))

\* if(self.connected) self.disconnect()
\* a plausible slip: the test of self.connected is left out
DisconnectIfConnected_untested(m, o) == disconnect(m, o, 0)

\* if(self.connected) self.disconnect(): lines 198, 209, 215
DisconnectIfConnected(m, o) == IF m.hub.connected THEN disconnect(m, o, 0) ELSE m

onData(m, s, event, o) ==
  CASE event.Event = "block" -> ProcessBlock(clearTimeout(m, s), event.block, o)
    [] event.Event = "register" -> clearTimeout(m, s)
    [] event.Event = "unregister" -> DisconnectIfConnected(clearTimeout(m, s), o)
    [] OTHER -> clearTimeout(m, s)

\* a plausible slip: the hub reconnects when its stream ends
onEnd_reconnecting(m, s, o) ==
  Bind(DisconnectIfConnected(clearTimeout(m, s), o), LAMBDA x : _connect(x, TRUE))

onEnd(m, s, o) == DisconnectIfConnected(clearTimeout(m, s), o)

onError(m, s, o) == DisconnectIfConnected(clearTimeout(m, s), o)

onTimeout(m, s, o) == disconnect([m EXCEPT !.streams[s].timer = FALSE], o, 0)

(***************************************************************************)
(* Choices the code leaves to its environment, drawn once per handler:     *)
(*   ord    the order in which a HashTable (an unordered map) is iterated: *)
(*          entries are visited by ascending ord of their listener id      *)
(*   state  what stream.call.channel_.getConnectivityState() answers       *)
(*   ub     what a HashTable iteration does after the table was changed    *)
(*          under it in a way that invalidates the native iterator:        *)
(*          "live", it goes on over the entries now in the table, or       *)
(*          "stale", over the entries it started with                      *)
(* A choice is drawn only where the handler can come to read it: an order  *)
(* when a table holds two entries, a connectivity state when a register    *)
(* call with an onError asks for one, an outcome of an invalidated         *)
(* iterator when a block listener's onEvent calls back into the hub.       *)
(***************************************************************************)
Tables == {"blockOnEvents", "blockOnErrors", "transactionOnEvents", "transactionOnErrors", "chaincodeRegistrants"}

OrdChoices ==
  IF \E t \in Tables : Cardinality(DOMAIN hub[t]) >= 2
    THEN Perms(1..MaxListeners)
    ELSE {[i \in 1..MaxListeners |-> i]}

UbChoices ==
  IF \E k \in DOMAIN hub.blockOnEvents : hub.blockOnEvents[k].b # "ret"
    THEN {"live", "stale"}
    ELSE {"live"}

Oracles == [ord : OrdChoices, state : {READY}, ub : UbChoices]

OraclesFor(er) ==
  [ord : OrdChoices, state : IF er = "none" THEN {READY} ELSE {IDLE, READY}, ub : UbChoices]

(***************************************************************************)
(* Member (Member.js).  The member of the model is built from its name.    *)
(* A promise is pending, resolved or rejected, and once settled it stays   *)
(* as it is: a later resolve or reject does nothing.                       *)
(***************************************************************************)
MemberName == "alice"
EnrollmentIDs == {"alice", "bob"}
Secrets == {"pw1", "pw2"}

\* constructor, lines 56-76, of a name
NewMember(name) == [_name |-> name, _enrollmentSecret |-> ""]

\* nothing stored under the name of the member
NoValue == [name |-> "", enrollmentSecret |-> ""]

\* requests: the register requests the member services have been sent;
\* store: the value of the key value store under the member's name;
\* calls: the register calls made, each with the state of the promise it
\* returned and whether its request to the member services is outstanding
NewEnv == [requests |-> 0, store |-> NoValue, calls |-> <<>>]

Settle(promise, outcome) == IF promise = "pending" THEN outcome ELSE promise

\* toString(), lines 499-509, as far as the model has fields
MemberToString(mem) == [name |-> mem._name, enrollmentSecret |-> mem._enrollmentSecret]

\* lines 188-190: reject(...), with no return
CheckEnrollmentID(mem, registrationRequest) ==
  IF registrationRequest.enrollmentID # mem._name THEN Settle("pending", "rejected") ELSE "pending"

\* register(registrationRequest), lines 184-215, up to the call of the
\* member services: the executor of the promise
register(mem, e, registrationRequest) ==
  IF mem._enrollmentSecret # ""
    THEN [e EXCEPT !.calls = Append(@,
            [enrollmentID |-> registrationRequest.enrollmentID,
             promise |-> Settle(CheckEnrollmentID(mem, registrationRequest), "resolved"),
             waiting |-> FALSE])]
    ELSE [e EXCEPT !.requests = @ + 1,
                   !.calls = Append(@,
            [enrollmentID |-> registrationRequest.enrollmentID,
             promise |-> CheckEnrollmentID(mem, registrationRequest),
             waiting |-> TRUE])]

\* lines 198-202: the member services have answered with a secret
StoreSecret(mem, enrollmentSecret) == [mem EXCEPT !._enrollmentSecret = enrollmentSecret]

\* lines 201-206 and 302-304: saveState(), then resolve; stored says whether
\* the key value store took the value.  Lines 207-211 when it did not.
SaveState(mem, e, i, stored) ==
  IF stored
    THEN [e EXCEPT !.store = MemberToString(mem),
                   !.calls[i].promise = Settle(@, "resolved"),
                   !.calls[i].waiting = FALSE]
    ELSE [e EXCEPT !.calls[i].promise = Settle(@, "rejected"),
                   !.calls[i].waiting = FALSE]

\* lines 207-211: the member services have answered with an error
RegisterFailed(e, i) ==
  [e EXCEPT !.calls[i].promise = Settle(@, "rejected"), !.calls[i].waiting = FALSE]

(***************************************************************************)
(* FabricCAClient (FabricCAClientImpl.js).  A port is what the caller put  *)
(* in connect_opts.port: nothing, a number or a string.                    *)
(***************************************************************************)
Port(type, n) == [type |-> type, n |-> n]
NoPort == Port("undefined", 0)

\* if (connect_opts.port)
Truthy(port) == port.type = "string" \/ (port.type = "number" /\ port.n # 0)
\* Number.isInteger(connect_opts.port): the numbers of the model are integers
IsInteger(port) == port.type = "number"

ConnectOpts ==
  [protocol : {Missing, "http", "https", "ftp"},
   hostname : {Missing, "localhost"},
   port : {NoPort, Port("number", 0), Port("number", 7054), Port("string", 7054)}]

\* _validateConnectionOpts(connect_opts): lines 485-507; what it throws
_validateConnectionOpts(connect_opts) ==
  IF connect_opts.protocol = Missing THEN "Protocol must be set to 'http' or 'https'"
  ELSE IF connect_opts.protocol # "http" /\ connect_opts.protocol # "https"
    THEN "Protocol must be set to 'http' or 'https'"
  ELSE IF connect_opts.hostname = Missing THEN "Hostname must be set"
  ELSE IF Truthy(connect_opts.port) /\ ~IsInteger(connect_opts.port) THEN "Port must be an integer"
  ELSE NoExc

NoClient ==
  [built |-> FALSE, exc |-> NoExc, given |-> [protocol |-> Missing, hostname |-> Missing, port |-> NoPort],
   opts |-> [protocol |-> Missing, hostname |-> Missing, port |-> NoPort],
   _httpClient |-> "", _hostname |-> "", _port |-> NoPort]

\* line 253: (connect_opts.protocol = 'http') ? http : https.  The test is
\* an assignment: it writes 'http' to the caller's object and has the value
\* assigned
AssignProtocol(connect_opts) == [connect_opts EXCEPT !.protocol = "http"]
HttpClient(connect_opts) == IF AssignProtocol(connect_opts).protocol # Missing THEN "http" ELSE "https"

\* lines 255-259, on connect_opts as line 253 left it
ChoosePort(connect_opts) ==
  IF Truthy(connect_opts.port) THEN connect_opts.port
  ELSE IF connect_opts.protocol = "http" THEN Port("number", 80) ELSE Port("number", 443)

\* constructor(connect_opts): lines 243-263.  given is connect_opts as the
\* caller made it, opts the same object when the constructor is done.
FabricCAClient(connect_opts) ==
  IF _validateConnectionOpts(connect_opts) # NoExc
    THEN [NoClient EXCEPT !.exc = "Invalid connection options.", !.given = connect_opts, !.opts = connect_opts]
    ELSE [built |-> TRUE, exc |-> NoExc, given |-> connect_opts,
          opts |-> AssignProtocol(connect_opts),
          _httpClient |-> HttpClient(connect_opts),
          _hostname |-> AssignProtocol(connect_opts).hostname,
          _port |-> ChoosePort(AssignProtocol(connect_opts))]

(***************************************************************************)
(* The state machine.  Between handlers no Set object is referenced but    *)
(* through chaincodeRegistrants, so the unreachable ones and the empty     *)
(* slots are dropped when a handler ends.                                  *)
(***************************************************************************)
Live(m) ==
  [sid \in {m.hub.chaincodeRegistrants[c] : c \in DOMAIN m.hub.chaincodeRegistrants} |->
     SelectSeq(m.sets[sid], LAMBDA e : e.id # 0)]

NoEvent == [Event |-> "-", block |-> <<>>]
NoProfile == [ev |-> "-", er |-> "-"]

\* the record of a handler: what was called, with what, and how it ended
\* (exc: what it threw, ret: what it returned)
OpRecord(name, p, key, s, event, r) ==
  [name |-> name, ev |-> p.ev, er |-> p.er, key |-> key, s |-> s, event |-> event,
   exc |-> r.exc, ret |-> r.ret]

Idle == [name |-> "idle", ev |-> "-", er |-> "-", key |-> "", s |-> 0, event |-> NoEvent,
         exc |-> NoExc, ret |-> 0]

State(m) == [hub |-> m.hub, sets |-> m.sets, streams |-> m.streams]

\* a handler runs, from start to end, when no other is running; r is the
\* state it ends in.  (The actions that draw inputs state op = Idle before
\* they draw them, so that nothing is drawn while a handler's record stands.)
Commit(r, name, p, key, s, event) ==
  /\ op = Idle
  /\ ~r.ovf
  /\ hub' = r.hub
  /\ sets' = Live(r)
  /\ streams' = r.streams
  /\ nlis' = r.nlis
  /\ log' = r.log
  /\ pre' = State(Start)
  /\ op' = OpRecord(name, p, key, s, event, r)
  /\ out' = NoOutput
  /\ UNCHANGED <<member, services, ca>>

Init ==
  /\ hub = NewHub
  /\ sets = Empty
  /\ streams = <<>>
  /\ nlis = 0
  /\ log = <<>>
  /\ op = Idle
  /\ pre = State(Start)
  /\ out = NoOutput
  /\ member = NewMember(MemberName)
  /\ services = NewEnv
  /\ ca = NoClient

\* the handler has returned to the event loop: what is kept of it is the
\* state of the hub
Return ==
  /\ op # Idle
  /\ op' = Idle
  /\ log' = <<>>
  /\ pre' = State(Start)
  /\ out' = NoOutput
  /\ UNCHANGED <<hub, sets, streams, nlis, member, services, ca>>

\* setPeerAddr(peerUrl, opts): lines 138-141
SetPeerAddr ==
  Commit([Start EXCEPT !.hub.ep = TRUE], "setPeerAddr", NoProfile, "", 0, NoEvent)

Connect ==
  Commit(connect(Start), "connect", NoProfile, "", 0, NoEvent)

Disconnect ==
  /\ op = Idle
  /\ \E o \in Oracles :
       Commit(disconnect(Start, o, 0), "disconnect", NoProfile, "", 0, NoEvent)

RegisterBlockEvent ==
  /\ op = Idle
  /\ \E p \in Profiles : \E o \in OraclesFor(p.er) :
       Commit(registerBlockEvent(Start, p.ev, p.er, o, 0), "registerBlockEvent", p, "", 0, NoEvent)

RegisterTxEvent ==
  /\ op = Idle
  /\ \E txid \in TxIds, p \in Profiles : \E o \in OraclesFor(p.er) :
       Commit(registerTxEvent(Start, txid, p.ev, p.er, o, 0), "registerTxEvent", p, txid, 0, NoEvent)

RegisterChaincodeEvent ==
  /\ op = Idle
  /\ \E ccid \in CcIds, eventname \in Patterns, p \in Profiles : \E o \in OraclesFor(p.er) :
       Commit(registerChaincodeEvent(Start, ccid, eventname, p.ev, p.er, o, 0), "registerChaincodeEvent", p, ccid, 0, NoEvent)

\* the application unregisters with a number registerBlockEvent has returned
UnregisterBlockEvent ==
  /\ op = Idle
  /\ \E n \in 1..(hub.block_registrant_count - 1) :
       Commit(unregisterBlockEvent(Start, n), "unregisterBlockEvent", NoProfile, "", n, NoEvent)

UnregisterTxEvent ==
  /\ op = Idle
  /\ \E txid \in TxIds :
       Commit(unregisterTxEvent(Start, txid), "unregisterTxEvent", NoProfile, txid, 0, NoEvent)

\* the application unregisters with a handle of a registration in force
UnregisterChaincodeEvent ==
  /\ op = Idle
  /\ \E ccid \in DOMAIN hub.chaincodeRegistrants :
       \E i \in DOMAIN sets[hub.chaincodeRegistrants[ccid]] :
         Commit(unregisterChaincodeEvent(Start, sets[hub.chaincodeRegistrants[ccid]][i]),
                "unregisterChaincodeEvent", NoProfile, ccid,
                sets[hub.chaincodeRegistrants[ccid]][i].id, NoEvent)

\* the stream s delivers a message
StreamData ==
  /\ op = Idle
  /\ \E s \in DOMAIN streams, event \in Events, o \in Oracles :
       /\ streams[s].rd = "live"
       /\ Commit(onData(Start, s, event, o), "data", NoProfile, "", s, event)

\* the stream s emits 'error'; it may do so again, and 'end' may follow
StreamError ==
  /\ op = Idle
  /\ \E s \in DOMAIN streams, o \in Oracles :
       /\ streams[s].rd = "live"
       /\ Commit(onError(Start, s, o), "error", NoProfile, "", s, NoEvent)

\* the stream s ends
StreamEnd ==
  /\ op = Idle
  /\ \E s \in DOMAIN streams, o \in Oracles :
       /\ streams[s].rd = "live"
       /\ Commit(onEnd([Start EXCEPT !.streams[s].rd = "done"], s, o), "end", NoProfile, "", s, NoEvent)

\* the send_timeout armed with the stream s expires
Timeout ==
  /\ op = Idle
  /\ \E s \in DOMAIN streams, o \in Oracles :
       /\ streams[s].timer
       /\ Commit(onTimeout(Start, s, o), "timeout", NoProfile, "", s, NoEvent)

Next ==
  \/ SetPeerAddr
  \/ Connect
  \/ Disconnect
  \/ RegisterBlockEvent
  \/ RegisterTxEvent
  \/ RegisterChaincodeEvent
  \/ UnregisterBlockEvent
  \/ UnregisterTxEvent
  \/ UnregisterChaincodeEvent
  \/ StreamData
  \/ StreamError
  \/ StreamEnd
  \/ Timeout
  \/ Return

Spec == Init /\ [][Next]_vars

(***************************************************************************)
(* A second specification of the same hub, for the dispatch of blocks and  *)
(* for the calls of the registration API: the callbacks of its listeners   *)
(* return or throw (none calls back into the hub), a block holds several   *)
(* envelopes, there are two transaction ids and two chaincode ids, and the *)
(* application also calls with an argument missing and unregisters with    *)
(* handles that are no longer in force.  Of the signals of a stream it has *)
(* the blocks and the expiry of the timeout.                               *)
(***************************************************************************)
\* envelopes in one inbound block
MaxBlockEnvs == 2

DispatchProfiles ==
  { [ev |-> "ret",   er |-> "none"],
    [ev |-> "throw", er |-> "none"],
    [ev |-> "ret",   er |-> "ret"] }

DispatchTxIds == {"tx1", "tx2"}
DispatchCcIds == {"cc1", "cc2"}

\* the last is a transaction without actions: tx.actions[0] is undefined
DispatchEnvelopes ==
  { [type |-> "ENDORSER_TRANSACTION", tx_id |-> "tx1", code |-> 0, actions |-> 1,
     chaincode_id |-> "cc1", event_name |-> "evtA"],
    [type |-> "ENDORSER_TRANSACTION", tx_id |-> "tx2", code |-> 11, actions |-> 1,
     chaincode_id |-> "cc1", event_name |-> "evtB"],
    [type |-> "ENDORSER_TRANSACTION", tx_id |-> "tx2", code |-> 0, actions |-> 1,
     chaincode_id |-> "cc2", event_name |-> "evtA"],
    [type |-> "CONFIG", tx_id |-> "tx1", code |-> 11, actions |-> 1,
     chaincode_id |-> "cc1", event_name |-> "evtA"],
    [type |-> "ENDORSER_TRANSACTION", tx_id |-> "tx1", code |-> 0, actions |-> 0,
     chaincode_id |-> "", event_name |-> ""] }

DispatchBlocks == SeqsUpTo(DispatchEnvelopes, MaxBlockEnvs) \ {<<>>}

RegisterBlockListener ==
  /\ op = Idle
  /\ \E p \in DispatchProfiles : \E o \in OraclesFor(p.er) :
       Commit(registerBlockEvent(Start, p.ev, p.er, o, 0), "registerBlockEvent", p, "", 0, NoEvent)

RegisterTxListener ==
  /\ op = Idle
  /\ \E txid \in DispatchTxIds, p \in DispatchProfiles : \E o \in OraclesFor(p.er) :
       Commit(registerTxEvent(Start, txid, p.ev, p.er, o, 0), "registerTxEvent", p, txid, 0, NoEvent)

RegisterChaincodeListener ==
  /\ op = Idle
  /\ \E ccid \in DispatchCcIds, eventname \in Patterns, p \in DispatchProfiles : \E o \in OraclesFor(p.er) :
       Commit(registerChaincodeEvent(Start, ccid, eventname, p.ev, p.er, o, 0),
              "registerChaincodeEvent", p, ccid, 0, NoEvent)

UnregisterTxListener ==
  /\ op = Idle
  /\ \E txid \in DispatchTxIds :
       Commit(unregisterTxEvent(Start, txid), "unregisterTxEvent", NoProfile, txid, 0, NoEvent)

\* the application unregisters with the handle of a chaincode registration
\* that is no longer in force
UnregisterStaleHandle ==
  /\ op = Idle
  /\ \E ccid \in DispatchCcIds : \E id \in (1..nlis) \ RegisteredIds(Start) :
       Commit(unregisterChaincodeEvent(Start, ChainCodeCBE(id, ccid, "evtA", "ret", "none")),
              "unregisterChaincodeEvent", NoProfile, ccid, id, NoEvent)

\* the names under which a call that misses an argument is recorded
MissingArguments ==
  {"!ccid", "!eventname", "!onEvent", "!txid", "!cbe", "!block_registration_number"}

\* the application calls a method of the registration API without one of
\* its required arguments
CallWithMissingArgument ==
  /\ op = Idle
  /\ \E er \in {"none", "ret"} : \E o \in OraclesFor(er) :
       \/ Commit(registerBlockEvent(Start, Missing, er, o, 0),
                 "registerBlockEvent", [ev |-> Missing, er |-> er], "!onEvent", 0, NoEvent)
       \/ Commit(registerTxEvent(Start, Missing, "ret", er, o, 0),
                 "registerTxEvent", [ev |-> "ret", er |-> er], "!txid", 0, NoEvent)
       \/ Commit(registerTxEvent(Start, "tx1", Missing, er, o, 0),
                 "registerTxEvent", [ev |-> Missing, er |-> er], "!onEvent", 0, NoEvent)
       \/ Commit(registerChaincodeEvent(Start, Missing, "evtA", "ret", er, o, 0),
                 "registerChaincodeEvent", [ev |-> "ret", er |-> er], "!ccid", 0, NoEvent)
       \/ Commit(registerChaincodeEvent(Start, "cc1", Missing, "ret", er, o, 0),
                 "registerChaincodeEvent", [ev |-> "ret", er |-> er], "!eventname", 0, NoEvent)
       \/ Commit(registerChaincodeEvent(Start, "cc1", "evtA", Missing, er, o, 0),
                 "registerChaincodeEvent", [ev |-> Missing, er |-> er], "!onEvent", 0, NoEvent)
       \/ Commit(unregisterChaincodeEvent(Start, NoCbe),
                 "unregisterChaincodeEvent", NoProfile, "!cbe", 0, NoEvent)
       \/ Commit(unregisterBlockEvent(Start, 0),
                 "unregisterBlockEvent", NoProfile, "!block_registration_number", 0, NoEvent)
       \/ Commit(unregisterTxEvent(Start, Missing),
                 "unregisterTxEvent", NoProfile, "!txid", 0, NoEvent)

\* the stream s delivers a block
BlockArrives ==
  /\ op = Idle
  /\ \E s \in DOMAIN streams, block \in DispatchBlocks, o \in Oracles :
       /\ streams[s].rd = "live"
       /\ Commit(onData(Start, s, [Event |-> "block", block |-> block], o),
                 "data", NoProfile, "", s, [Event |-> "block", block |-> block])

DispatchNext ==
  \/ SetPeerAddr
  \/ Connect
  \/ Disconnect
  \/ RegisterBlockListener
  \/ RegisterTxListener
  \/ RegisterChaincodeListener
  \/ UnregisterBlockEvent
  \/ UnregisterTxListener
  \/ UnregisterChaincodeEvent
  \/ UnregisterStaleHandle
  \/ CallWithMissingArgument
  \/ BlockArrives
  \/ Timeout
  \/ Return

DispatchSpec == Init /\ [][DispatchNext]_vars

(***************************************************************************)
(* A third specification of the hub, for its connection: the callbacks of  *)
(* the listeners only return, so that every stream opened, written to or   *)
(* ended is the hub's own doing, and the streams emit all their signals,   *)
(* the streams the hub has left behind included.                           *)
(***************************************************************************)
QuietProfiles ==
  { [ev |-> "ret", er |-> "none"],
    [ev |-> "ret", er |-> "ret"] }

RegisterQuietBlockListener ==
  /\ op = Idle
  /\ \E p \in QuietProfiles : \E o \in OraclesFor(p.er) :
       Commit(registerBlockEvent(Start, p.ev, p.er, o, 0), "registerBlockEvent", p, "", 0, NoEvent)

RegisterQuietTxListener ==
  /\ op = Idle
  /\ \E txid \in TxIds, p \in QuietProfiles : \E o \in OraclesFor(p.er) :
       Commit(registerTxEvent(Start, txid, p.ev, p.er, o, 0), "registerTxEvent", p, txid, 0, NoEvent)

RegisterQuietChaincodeListener ==
  /\ op = Idle
  /\ \E ccid \in CcIds, eventname \in Patterns, p \in QuietProfiles : \E o \in OraclesFor(p.er) :
       Commit(registerChaincodeEvent(Start, ccid, eventname, p.ev, p.er, o, 0),
              "registerChaincodeEvent", p, ccid, 0, NoEvent)

ConnectionNext ==
  \/ SetPeerAddr
  \/ Connect
  \/ Disconnect
  \/ RegisterQuietBlockListener
  \/ RegisterQuietTxListener
  \/ RegisterQuietChaincodeListener
  \/ UnregisterBlockEvent
  \/ UnregisterTxEvent
  \/ UnregisterChaincodeEvent
  \/ StreamData
  \/ StreamError
  \/ StreamEnd
  \/ Timeout
  \/ Return

ConnectionSpec == Init /\ [][ConnectionNext]_vars

(***************************************************************************)
(* A fourth specification of the hub, for what fails around it: the user   *)
(* context of the client may lose and regain its signing identity, an      *)
(* onError may throw, and a stream may deliver a block that cannot be      *)
(* decoded.                                                                *)
(***************************************************************************)
FaultProfiles ==
  { [ev |-> "ret", er |-> "none"],
    [ev |-> "ret", er |-> "ret"],
    [ev |-> "ret", er |-> "throw"] }

GarbledEnvelope ==
  [type |-> "GARBLED", tx_id |-> "tx1", code |-> 0, actions |-> 0,
   chaincode_id |-> "", event_name |-> ""]

FaultEvents == Events \cup {[Event |-> "block", block |-> <<GarbledEnvelope>>]}

\* the application sets the user context of the client the hub was built with
SetUserContext ==
  \E signing \in BOOLEAN :
    Commit([Start EXCEPT !.hub.signing = signing], "setUserContext", NoProfile, "", 0, NoEvent)

RegisterFaultyBlockListener ==
  /\ op = Idle
  /\ \E p \in FaultProfiles : \E o \in OraclesFor(p.er) :
       Commit(registerBlockEvent(Start, p.ev, p.er, o, 0), "registerBlockEvent", p, "", 0, NoEvent)

RegisterFaultyTxListener ==
  /\ op = Idle
  /\ \E txid \in TxIds, p \in FaultProfiles : \E o \in OraclesFor(p.er) :
       Commit(registerTxEvent(Start, txid, p.ev, p.er, o, 0), "registerTxEvent", p, txid, 0, NoEvent)

RegisterFaultyChaincodeListener ==
  /\ op = Idle
  /\ \E ccid \in CcIds, eventname \in Patterns, p \in FaultProfiles : \E o \in OraclesFor(p.er) :
       Commit(registerChaincodeEvent(Start, ccid, eventname, p.ev, p.er, o, 0),
              "registerChaincodeEvent", p, ccid, 0, NoEvent)

\* the stream s delivers a message, possibly a block that cannot be decoded
FaultyStreamData ==
  /\ op = Idle
  /\ \E s \in DOMAIN streams, event \in FaultEvents, o \in Oracles :
       /\ streams[s].rd = "live"
       /\ Commit(onData(Start, s, event, o), "data", NoProfile, "", s, event)

FaultNext ==
  \/ SetPeerAddr
  \/ SetUserContext
  \/ Connect
  \/ Disconnect
  \/ RegisterFaultyBlockListener
  \/ RegisterFaultyTxListener
  \/ RegisterFaultyChaincodeListener
  \/ FaultyStreamData
  \/ StreamError
  \/ StreamEnd
  \/ Timeout
  \/ Return

FaultSpec == Init /\ [][FaultNext]_vars

(***************************************************************************)
(* A fifth specification of the hub: an application whose onEvent          *)
(* callbacks call the register and unregister methods of the hub while a   *)
(* block is dispatched.  It connects once, registers without onError, and  *)
(* receives blocks of transactions of one chaincode.                       *)
(***************************************************************************)
MutationBehaviours ==
  {"ret", "register"} \cup DOMAIN UnregisterBlock \cup DOMAIN UnregisterCc

MutationEnvelopes ==
  { [type |-> "ENDORSER_TRANSACTION", tx_id |-> "tx1", code |-> 0, actions |-> 1,
     chaincode_id |-> CallbackCcId, event_name |-> n] : n \in {"evtA", "evtB"} }

MutationEvents ==
  {[Event |-> "block", block |-> b] : b \in SeqsUpTo(MutationEnvelopes, MaxMutationEnvs) \ {<<>>}}

MutationOracles ==
  [ord : IF Cardinality(DOMAIN hub.blockOnEvents) >= 2
           THEN Perms(1..MaxMutationListeners)
           ELSE {[i \in 1..MaxMutationListeners |-> i]},
   state : {READY},
   ub : UbChoices]

MutationStart == [Start EXCEPT !.cap = MaxMutationListeners]

RegisterMutatingBlockListener ==
  /\ op = Idle
  /\ \E ev \in MutationBehaviours, o \in MutationOracles :
       Commit(registerBlockEvent(MutationStart, ev, "none", o, 0),
              "registerBlockEvent", [ev |-> ev, er |-> "none"], "", 0, NoEvent)

RegisterMutatingChaincodeListener ==
  /\ op = Idle
  /\ \E eventname \in Patterns, ev \in MutationBehaviours, o \in MutationOracles :
       Commit(registerChaincodeEvent(MutationStart, CallbackCcId, eventname, ev, "none", o, 0),
              "registerChaincodeEvent", [ev |-> ev, er |-> "none"], CallbackCcId, 0, NoEvent)

MutationStreamData ==
  /\ op = Idle
  /\ \E s \in DOMAIN streams, event \in MutationEvents, o \in MutationOracles :
       /\ streams[s].rd = "live"
       /\ Commit(onData(MutationStart, s, event, o), "data", NoProfile, "", s, event)

MutationNext ==
  \/ SetPeerAddr
  \/ Connect
  \/ RegisterMutatingBlockListener
  \/ RegisterMutatingChaincodeListener
  \/ MutationStreamData
  \/ Return

MutationSpec == Init /\ [][MutationNext]_vars

(***************************************************************************)
(* A seventh specification: an application that registers a member with    *)
(* the member services and builds clients of a Fabric CA server.           *)
(***************************************************************************)
\* member.register(registrationRequest)
MemberRegister ==
  \E enrollmentID \in EnrollmentIDs :
    /\ Len(services.calls) < MaxRegisterCalls
    /\ services' = register(member, services, [enrollmentID |-> enrollmentID])
    /\ UNCHANGED <<hub, sets, streams, nlis, op, pre, log, out, member, ca>>

\* the member services answer a register request with a secret, and the key
\* value store takes the state of the member or fails
MemberServicesAnswer ==
  \E i \in DOMAIN services.calls, enrollmentSecret \in Secrets, stored \in BOOLEAN :
    /\ services.calls[i].waiting
    /\ member' = StoreSecret(member, enrollmentSecret)
    /\ services' = SaveState(member', services, i, stored)
    /\ UNCHANGED <<hub, sets, streams, nlis, op, pre, log, out, ca>>

\* the member services answer a register request with an error
MemberServicesError ==
  \E i \in DOMAIN services.calls :
    /\ services.calls[i].waiting
    /\ services' = RegisterFailed(services, i)
    /\ UNCHANGED <<hub, sets, streams, nlis, op, pre, log, out, member, ca>>

\* new FabricCAClient(connect_opts)
NewFabricCAClient ==
  \E connect_opts \in ConnectOpts :
    /\ ca' = FabricCAClient(connect_opts)
    /\ UNCHANGED <<hub, sets, streams, nlis, op, pre, log, out, member, services>>

IdentityNext ==
  \/ MemberRegister
  \/ MemberServicesAnswer
  \/ MemberServicesError
  \/ NewFabricCAClient

IdentitySpec == Init /\ [][IdentityNext]_vars

(***************************************************************************)
(* The block decoder, Block.decode and the decodeConfigPolicy it uses for  *)
(* the policies of a configuration envelope.  A wire input is what the     *)
(* caller passes: the kind of object it is, whether the outer message      *)
(* parses, and the envelopes it holds.  The decoder logs each message it   *)
(* parses and each warning it writes.                                      *)
(***************************************************************************)
\* policies of one configuration envelope
MaxPolicies == 2
\* envelopes of one wire block
MaxWireEnvs == 1

\* Policy.PolicyType of policies.proto, by wire value
PolicyType == (1 :> "SIGNATURE" @@ 2 :> "MSP" @@ 3 :> "IMPLICIT_META")

\* the policy field of a ConfigPolicy: its type is a number, or is not set
WirePolicies ==
  {[defined |-> TRUE, type |-> t] : t \in 0..4} \cup {[defined |-> FALSE, type |-> 0]}

WireEnvelopes ==
  {[type |-> "CONFIG", policies |-> ps] : ps \in SeqsUpTo(WirePolicies, MaxPolicies)}
    \cup {[type |-> t, policies |-> <<>>] : t \in {"ENDORSER_TRANSACTION", "ORDERER_TRANSACTION"}}

\* what a caller may hand to decode: only a Buffer is a byte buffer
InputKinds == {"Buffer", "Uint8Array", "undefined"}

WireInputs ==
  [kind : InputKinds, wellformed : BOOLEAN, data : SeqsUpTo(WireEnvelopes, MaxWireEnvs)]

\* a call of the decoder starts with nothing parsed and nothing handed back
DecodeStart == [log |-> <<>>, exc |-> NoExc, ovf |-> FALSE, ret |-> 0, out |-> NoOutput]

\* return v
Output(m, v) == [m EXCEPT !.out = [returned |-> TRUE, value |-> <<v>>]]

\* the value returned by the call that ended in m
Value(m) == m.out.value[1]

\* the call that ended in m has returned; its caller goes on
Taken(m) == [m EXCEPT !.out = NoOutput]

DecodedPolicy(p) ==
  [type |-> PolicyType[p.type], policy |-> IF PolicyType[p.type] = "MSP" THEN "undecoded" ELSE "decoded"]

\* a plausible slip: the MSP type is accepted without the warning
decodeConfigPolicy_silent(m, p) ==
  CASE p.defined /\ p.type = 1 ->
         Output(Emit(m, <<"parse", "SignaturePolicyEnvelope">>), DecodedPolicy(p))
    [] p.defined /\ p.type = 2 -> Output(m, DecodedPolicy(p))
    [] p.defined /\ p.type = 3 ->
         Output(Emit(m, <<"parse", "ImplicitMetaPolicy">>), DecodedPolicy(p))
    [] OTHER -> Throw(m, "Unknown Policy type")

\* a plausible slip: a type that is not known is decoded as an undecoded MSP
decodeConfigPolicy_defaulting(m, p) ==
  CASE p.defined /\ p.type = 1 ->
         Output(Emit(m, <<"parse", "SignaturePolicyEnvelope">>), DecodedPolicy(p))
    [] p.defined /\ p.type = 3 ->
         Output(Emit(m, <<"parse", "ImplicitMetaPolicy">>), DecodedPolicy(p))
    [] OTHER -> Output(Emit(m, <<"warn", "MSP">>), [type |-> "MSP", policy |-> "undecoded"])

\* decodeConfigPolicy(proto_config_policy): the switch on policy.type
decodeConfigPolicy(m, p) ==
  CASE p.defined /\ p.type = 1 ->
         Output(Emit(m, <<"parse", "SignaturePolicyEnvelope">>), DecodedPolicy(p))
    [] p.defined /\ p.type = 2 ->
         Output(Emit(m, <<"warn", PolicyType[p.type]>>), DecodedPolicy(p))
    [] p.defined /\ p.type = 3 ->
         Output(Emit(m, <<"parse", "ImplicitMetaPolicy">>), DecodedPolicy(p))
    [] OTHER -> Throw(m, "Unknown Policy type")

\* every entry of a group's policies map, in order
RECURSIVE decodeConfigPolicies(_, _, _, _)
decodeConfigPolicies(m, policies, i, acc) ==
  IF i > Len(policies) THEN Output(m, acc)
  ELSE Bind(decodeConfigPolicy(m, policies[i]),
            LAMBDA x : decodeConfigPolicies(Taken(x), policies, i + 1, Append(acc, Value(x))))

\* steps 2 and 3: the envelope's header, then its payload by header type
decodeBlockDataEnvelope(m, env) ==
  CASE env.type = "CONFIG" ->
         Bind(decodeConfigPolicies(Emit(Emit(m, <<"parse", "Envelope">>), <<"parse", "ConfigEnvelope">>),
                                   env.policies, 1, <<>>),
              LAMBDA x : Output(Taken(x), [type |-> env.type, data |-> "decoded", policies |-> Value(x)]))
    [] env.type = "ENDORSER_TRANSACTION" ->
         Output(Emit(Emit(m, <<"parse", "Envelope">>), <<"parse", "Transaction">>),
                [type |-> env.type, data |-> "decoded", policies |-> <<>>])
    [] OTHER ->
         Output(Emit(m, <<"parse", "Envelope">>), [type |-> env.type, data |-> "raw", policies |-> <<>>])

RECURSIVE decodeBlockData(_, _, _, _)
decodeBlockData(m, data, i, acc) ==
  IF i > Len(data) THEN Output(m, acc)
  ELSE Bind(decodeBlockDataEnvelope(m, data[i]),
            LAMBDA x : decodeBlockData(Taken(x), data, i + 1, Append(acc, Value(x))))

\* step 1: the outer Block message
ParseBlock(m, input) ==
  IF input.wellformed THEN Emit(m, <<"parse", "Block">>)
  ELSE Throw(Emit(m, <<"parse", "Block">>), "Block decode has failed")

\* a plausible slip: the outer message is parsed before the input is checked
decode_parsing_first(m, input) ==
  Bind(ParseBlock(m, input),
    LAMBDA x : IF input.kind # "Buffer" THEN Throw(x, "Block input data is not a byte buffer")
               ELSE decodeBlockData(x, input.data, 1, <<>>))

\* Block.decode(block_bytes)
decode(m, input) ==
  IF input.kind # "Buffer" THEN Throw(m, "Block input data is not a byte buffer")
  ELSE Bind(ParseBlock(m, input), LAMBDA x : decodeBlockData(x, input.data, 1, <<>>))

(***************************************************************************)
(* A sixth specification: an application that calls the decoder.           *)
(***************************************************************************)
\* a call of the decoder runs, from start to end; r is the state it ends in
DecoderCall(r, name, key, wire) ==
  /\ op = Idle
  /\ op' = OpRecord(name, NoProfile, key, 0, [Event |-> "wire", block |-> wire], r)
  /\ log' = r.log
  /\ out' = r.out
  /\ pre' = State(Start)
  /\ UNCHANGED <<hub, sets, streams, nlis, member, services, ca>>

DecodeBlock ==
  /\ op = Idle
  /\ \E input \in WireInputs :
    DecoderCall(decode(DecodeStart, input), "decode", input.kind,
                <<[type |-> IF input.wellformed THEN "Block" ELSE "garbage", policies |-> <<>>]>> \o input.data)

DecodeConfigPolicy ==
  /\ op = Idle
  /\ \E p \in WirePolicies :
    DecoderCall(decodeConfigPolicy(DecodeStart, p), "decodeConfigPolicy", "",
                <<[type |-> "CONFIG", policies |-> <<p>>]>>)

DecodeNext ==
  \/ DecodeBlock
  \/ DecodeConfigPolicy
  \/ Return

DecodeSpec == Init /\ [][DecodeNext]_vars

(***************************************************************************)
(* What the properties below speak of.  After a handler has run, op names  *)
(* it and tells how it ended, pre is the state it started from, log what   *)
(* it did, and hub, sets, streams are the state it left.                   *)
(***************************************************************************)
RegisterOps == {"registerBlockEvent", "registerTxEvent", "registerChaincodeEvent"}

Now == [hub |-> hub, sets |-> sets, streams |-> streams]

\* the handler made an entry of this kind in its log
LogHas(kind) == \E i \in DOMAIN log : log[i][1] = kind

\* no onError of a listener registered in st, and none being registered by
\* the handler, calls back into the hub
QuietOnErrors(st) ==
  /\ op.er \in {"-", "none", "ret"}
  /\ \A k \in DOMAIN st.hub.blockOnErrors : st.hub.blockOnErrors[k].b = "ret"
  /\ \A k \in DOMAIN st.hub.transactionOnErrors : st.hub.transactionOnErrors[k].b = "ret"
  /\ \A sid \in DOMAIN st.sets : \A i \in DOMAIN st.sets[sid] :
       st.sets[sid][i].onError \in {"none", "ret"}

\* no onEvent of a block listener registered in st calls back into the hub,
\* so that no iteration of blockOnEvents has its table changed under it
QuietBlockListeners(st) ==
  \A k \in DOMAIN st.hub.blockOnEvents : st.hub.blockOnEvents[k].b = "ret"

\* the streams that are open: the hub has not ended them, nor has the peer
OpenStreams == {s \in DOMAIN streams : ~streams[s].ended /\ streams[s].rd = "live"}

(***************************************************************************)
(* C1.  On a hub whose connected flag is false, registerBlockEvent,        *)
(* registerTxEvent and registerChaincodeEvent called without an onError    *)
(* throw, and leave the registries, the block registration counter, the    *)
(* connected flag and the stream as they were: nothing is written, no      *)
(* callback is invoked.                                                    *)
(***************************************************************************)
C1_RegisterWithoutOnErrorThrows ==
  (op.name \in RegisterOps /\ op.er = "none" /\ ~pre.hub.connected) =>
    /\ op.exc # NoExc
    /\ hub = pre.hub
    /\ sets = pre.sets
    /\ streams = pre.streams
    /\ log = <<>>

\* a block listener without onError is refused by a hub that has its peer
\* address, was disconnected, and holds a listener
C1_Witness ==
  /\ op.name = "registerBlockEvent"
  /\ op.er = "none"
  /\ pre.hub.ep
  /\ ~pre.hub.connected
  /\ RegisteredIds(pre) # {}
  /\ op.exc = "The event hub has not been connected to the event source"

(***************************************************************************)
(* C2.  On a disconnected hub that has its peer address, a register call   *)
(* with an onError returns normally, the listener is in its registry when  *)
(* the call returns, and a reconnect was attempted (a stream was opened).  *)
(***************************************************************************)
C2_RegisterWithOnErrorReturns ==
  (op.name \in RegisterOps /\ op.er \notin {"-", "none"} /\ pre.hub.ep /\ ~pre.hub.connected) =>
    /\ op.exc = NoExc
    /\ nlis \in RegisteredIds(Now)
    /\ LogHas("open")

(***************************************************************************)
(* C3.  Where no onError and no onEvent of a block listener calls back     *)
(* into the hub: once _closeAllCallbacks has begun, each listener          *)
(* registered at that moment with an onError has its onError invoked       *)
(* exactly once, no listener registered at that moment is in a registry    *)
(* when the handler ends, and no onEvent of such a listener is invoked     *)
(* afterwards, the rest of a block dispatch included.                      *)
(***************************************************************************)
C3_DisconnectClosesEveryListener ==
  (QuietOnErrors(pre) /\ QuietBlockListeners(pre)) =>
    \A i \in DOMAIN log :
      log[i][1] = "close" =>
        /\ \A id \in log[i][3] :
             Cardinality({j \in DOMAIN log : j > i /\ log[j] = <<"err", id>>}) = 1
        /\ RegisteredIds(Now) \cap log[i][2] = {}
        /\ \A j \in DOMAIN log :
             (j > i /\ log[j][1] = "evt") => log[j][2] \notin log[i][2]

(***************************************************************************)
(* C4.  When disconnect() returns, the connected flag is false and the     *)
(* three registries are empty.                                             *)
(***************************************************************************)
C4_DisconnectReturnsDisconnected ==
  (op.name = "disconnect" /\ op.exc = NoExc) =>
    /\ ~hub.connected
    /\ RegisteredIds(Now) = {}
    /\ DOMAIN hub.chaincodeRegistrants = {}

(***************************************************************************)
(* C5.  disconnect() on a hub that a disconnect has left disconnected      *)
(* (the flag is false, the stream was ended, no listener is registered)    *)
(* invokes no callback, writes nothing to the stream, does not end it      *)
(* again and leaves the state of the hub as it was.                        *)
(***************************************************************************)
C5_DisconnectIdempotent ==
  ( /\ op.name = "disconnect"
    /\ ~pre.hub.connected
    /\ pre.hub.stream # 0
    /\ pre.streams[pre.hub.stream].ended
    /\ RegisteredIds(pre) = {} ) =>
    /\ ~LogHas("err")
    /\ ~LogHas("evt")
    /\ ~LogHas("write")
    /\ ~LogHas("end")
    /\ Now = pre

(***************************************************************************)
(* C6.  A disconnect() called by the application returns, without          *)
(* exhausting the call stack, and invokes the onError of no listener more  *)
(* than once, also when an onError it invokes calls disconnect().          *)
(***************************************************************************)
C6_NestedDisconnectReturns ==
  op.name = "disconnect" =>
    /\ op.exc = NoExc
    /\ \A i, j \in DOMAIN log :
         (i < j /\ log[i][1] = "err" /\ log[j][1] = "err") => log[i][2] # log[j][2]

(***************************************************************************)
(* C7.  In every state the hub has at most one open stream.                *)
(***************************************************************************)
C7_AtMostOneOpenStream == Cardinality(OpenStreams) <= 1

(***************************************************************************)
(* C8.  connect() on a hub that is connected does nothing: it opens no     *)
(* stream, arms no timeout, writes no registration request, throws         *)
(* nothing, and leaves the registries and the connected flag as they were. *)
(***************************************************************************)
C8_ConnectWhenConnectedIsNoOp ==
  (op.name = "connect" /\ pre.hub.connected) =>
    /\ op.exc = NoExc
    /\ log = <<>>
    /\ Now = pre

\* connect() called on a connected hub that holds a listener
C8_Witness ==
  /\ op.name = "connect"
  /\ pre.hub.connected
  /\ RegisteredIds(pre) # {}
  /\ hub.connected

(***************************************************************************)
(* C9.  connect() on a hub whose peer address was never set throws before  *)
(* a timeout is armed or a stream is opened, and leaves the hub            *)
(* disconnected with its registries as they were.                          *)
(***************************************************************************)
C9_ConnectWithoutAddressThrows ==
  (op.name = "connect" /\ ~pre.hub.ep) =>
    /\ op.exc = "Must set peer address before connecting."
    /\ log = <<>>
    /\ ~hub.connected
    /\ Now = pre

\* connect() was called on a hub without a peer address, and threw
C9_Witness ==
  /\ op.name = "connect"
  /\ ~pre.hub.ep
  /\ op.exc # NoExc
  /\ streams = <<>>

(***************************************************************************)
(* C10.  When the timeout armed with the stream of a connected hub expires *)
(* (nothing has arrived on that stream), the hub is marked disconnected    *)
(* and the onError of every listener registered with one is invoked.       *)
(***************************************************************************)
C10_TimeoutClosesEveryListener ==
  (op.name = "timeout" /\ pre.hub.connected /\ op.s = pre.hub.stream) =>
    /\ LogHas("close")
    /\ \A id \in ErrorIds(pre) : \E i \in DOMAIN log : log[i] = <<"err", id>>

(***************************************************************************)
(* C11.  A terminal signal of a stream (end, error, or the expiry of the   *)
(* timeout armed with it) that arrives while the hub is not marked         *)
(* connected does not run the disconnect again: it invokes no callback,    *)
(* writes nothing to a stream and ends no stream.                          *)
(***************************************************************************)
C11_TerminalSignalWhenDisconnected ==
  (op.name \in {"end", "error", "timeout"} /\ ~pre.hub.connected) =>
    /\ ~LogHas("close")
    /\ ~LogHas("err")
    /\ ~LogHas("write")
    /\ ~LogHas("end")

(***************************************************************************)
(* What a block has the dispatch passes do, in the state st the handler    *)
(* starts from.                                                            *)
(***************************************************************************)
\* the handler that has run is the data handler, for a block
BlockDispatched == op.name = "data" /\ op.event.Event = "block"

\* how often the handler invoked the onEvent of listener id
EventCalls(id) == Cardinality({i \in DOMAIN log : log[i] = <<"evt", id>>})

\* the block listeners
BlockDue(st) == {st.hub.blockOnEvents[k].id : k \in DOMAIN st.hub.blockOnEvents}

\* the envelopes of the block whose transaction id has a listener
TxEnvelopes(st, block) ==
  {i \in DOMAIN block : block[i].tx_id \in DOMAIN st.hub.transactionOnEvents}

\* the entries of the Set of chaincode id ccid whose pattern matches name
Matching(st, ccid, name) ==
  IF ccid \in DOMAIN st.hub.chaincodeRegistrants
    THEN {i \in DOMAIN st.sets[st.hub.chaincodeRegistrants[ccid]] :
            RegExpTest(st.sets[st.hub.chaincodeRegistrants[ccid]][i].eventNameFilter, name)}
    ELSE {}

Min(S) == CHOOSE x \in S : \A y \in S : x <= y

\* the listener the transaction pass has to call first, if there is one
TxFirst(st, block) ==
  IF TxEnvelopes(st, block) = {} THEN {}
  ELSE {st.hub.transactionOnEvents[block[Min(TxEnvelopes(st, block))].tx_id].id}

\* the listener the chaincode pass has to call first, when the first
\* envelope of the block carries an event for one
CcFirst(st, block) ==
  IF block[1].type # "ENDORSER_TRANSACTION"
       \/ Matching(st, block[1].chaincode_id, block[1].event_name) = {}
    THEN {}
    ELSE {st.sets[st.hub.chaincodeRegistrants[block[1].chaincode_id]]
            [Min(Matching(st, block[1].chaincode_id, block[1].event_name))].id}

(***************************************************************************)
(* C12.  For every block each of the three passes is begun: the callback   *)
(* that the transaction pass has to make first, and the one the chaincode  *)
(* pass has to make first, are made whatever the callbacks of the earlier  *)
(* passes did, and some block listener is called if there is one.          *)
(***************************************************************************)
C12_EveryPassRuns ==
  BlockDispatched =>
    /\ BlockDue(pre) # {} => \E id \in BlockDue(pre) : EventCalls(id) >= 1
    /\ \A id \in TxFirst(pre, op.event.block) : EventCalls(id) >= 1
    /\ \A id \in CcFirst(pre, op.event.block) : EventCalls(id) >= 1

(***************************************************************************)
(* C13.  For every block, each block listener registered when the block    *)
(* arrives is invoked exactly once (no callback of this specification      *)
(* changes a registry).                                                    *)
(***************************************************************************)
C13_EveryBlockListenerOnce ==
  BlockDispatched => \A id \in BlockDue(pre) : EventCalls(id) = 1

\* what the transaction pass has to do for the block: for each envelope
\* whose transaction id has a listener, in the order of the envelopes, call
\* that listener with the id and the validation code of the envelope
TxCall(st, env) ==
  <<"tx", st.hub.transactionOnEvents[env.tx_id].id, env.tx_id, convertValidationCode(env.code)>>

TxExpected(st, block) ==
  [i \in 1..Len(SelectSeq(block, LAMBDA env : env.tx_id \in DOMAIN st.hub.transactionOnEvents)) |->
     TxCall(st, SelectSeq(block, LAMBDA env : env.tx_id \in DOMAIN st.hub.transactionOnEvents)[i])]

\* what the transaction pass did
TxCalls == SelectSeq(log, LAMBDA e : e[1] = "tx")

(***************************************************************************)
(* C14.  For every block, the calls the transaction pass makes are: for    *)
(* each envelope whose transaction id has a listener, one call of that     *)
(* listener with the transaction id and the validation code at the index   *)
(* of the envelope, in the order of the envelopes; and no other call.      *)
(***************************************************************************)
C14_TxDispatch ==
  BlockDispatched => TxCalls = TxExpected(pre, op.event.block)

\* no onEvent of a listener registered in st throws
NoThrowingListener(st) ==
  /\ \A k \in DOMAIN st.hub.blockOnEvents : st.hub.blockOnEvents[k].b # "throw"
  /\ \A k \in DOMAIN st.hub.transactionOnEvents : st.hub.transactionOnEvents[k].b # "throw"
  /\ \A sid \in DOMAIN st.sets : \A i \in DOMAIN st.sets[sid] : st.sets[sid][i].onEvent # "throw"

\* the chaincode listeners registered in st
ChaincodeListeners(st) ==
  UNION {{st.sets[sid][i] : i \in DOMAIN st.sets[sid]} : sid \in DOMAIN st.sets}

\* the envelopes of the block that carry an event for the listener cbe
EventsFor(cbe, block) ==
  {i \in DOMAIN block : /\ block[i].type = "ENDORSER_TRANSACTION"
                        /\ block[i].chaincode_id = cbe.ccid
                        /\ RegExpTest(cbe.eventNameFilter, block[i].event_name)}

(***************************************************************************)
(* C15.  Where no onEvent throws: for every block, the onEvent of a        *)
(* chaincode listener is invoked once for each envelope of type            *)
(* ENDORSER_TRANSACTION that carries an event of the listener's chaincode  *)
(* id with a name its pattern matches, and for no other envelope.          *)
(***************************************************************************)
C15_ChaincodeDispatch ==
  (BlockDispatched /\ NoThrowingListener(pre)) =>
    \A cbe \in ChaincodeListeners(pre) :
      EventCalls(cbe.id) = Cardinality(EventsFor(cbe, op.event.block))

\* the handler that has run is an unregister call, all arguments given,
\* for a number, a transaction id or a handle that is not registered
UnregisteredAgain ==
  /\ op.key \notin MissingArguments
  /\ \/ /\ op.name = "unregisterBlockEvent"
        /\ op.s \notin DOMAIN pre.hub.blockOnEvents \cup DOMAIN pre.hub.blockOnErrors
     \/ /\ op.name = "unregisterTxEvent"
        /\ op.key \notin DOMAIN pre.hub.transactionOnEvents \cup DOMAIN pre.hub.transactionOnErrors
     \/ /\ op.name = "unregisterChaincodeEvent"
        /\ op.s \notin RegisteredIds(pre)

(***************************************************************************)
(* C16.  unregisterBlockEvent, unregisterTxEvent and                       *)
(* unregisterChaincodeEvent called for a registration that is not in force *)
(* (removed by an earlier unregister call or by a disconnect) throw        *)
(* nothing, invoke no callback and leave the registries, and the rest of   *)
(* the hub, unchanged.                                                     *)
(***************************************************************************)
C16_UnregisterIdempotent ==
  UnregisteredAgain =>
    /\ op.exc = NoExc
    /\ log = <<>>
    /\ Now = pre

\* a chaincode handle that is no longer in force is unregistered while the
\* Set of its chaincode id holds another listener
C16_Witness ==
  /\ op.name = "unregisterChaincodeEvent"
  /\ op.s \in 1..nlis
  /\ op.s \notin RegisteredIds(pre)
  /\ op.key \in DOMAIN pre.hub.chaincodeRegistrants
  /\ op.exc = NoExc

(***************************************************************************)
(* C17.  The number registerBlockEvent returns is the value of the block   *)
(* registration counter before the call, is at least 1, and the counter is *)
(* greater after the call; the counter never decreases, whatever else      *)
(* happens (unregisterBlockEvent, disconnect, reconnect), and every number *)
(* in the block registries is below it.  Hence the numbers returned are    *)
(* strictly increasing and none is used twice.                             *)
(***************************************************************************)
C17_BlockNumbersIncrease ==
  [][ /\ hub'.block_registrant_count >= hub.block_registrant_count
      /\ \A k \in DOMAIN hub'.blockOnEvents \cup DOMAIN hub'.blockOnErrors :
           k >= 1 /\ k < hub'.block_registrant_count
      /\ (op'.name = "registerBlockEvent" /\ op'.exc = NoExc) =>
           /\ op'.ret = hub.block_registrant_count
           /\ op'.ret >= 1
           /\ hub'.block_registrant_count > op'.ret ]_vars

\* the second number is handed out after the first registration was closed
\* by a disconnect and the hub was connected again
C17_Witness ==
  /\ op.name = "registerBlockEvent"
  /\ op.exc = NoExc
  /\ op.ret = 2
  /\ DOMAIN hub.blockOnEvents = {2}
  /\ Len(streams) = 2
  /\ streams[1].ended

(***************************************************************************)
(* C18.  The onError that a disconnect() invokes for a transaction id is   *)
(* the onError of the registration whose onEvent is stored for that id: an *)
(* earlier registration of the id, replaced by a later registerTxEvent,    *)
(* has no callback invoked any more.                                       *)
(***************************************************************************)
C18_TxRegistrationReplaced ==
  op.name = "disconnect" =>
    \A T \in DOMAIN pre.hub.transactionOnErrors :
      (\E i \in DOMAIN log : log[i] = <<"err", pre.hub.transactionOnErrors[T].id>>) =>
        /\ T \in DOMAIN pre.hub.transactionOnEvents
        /\ pre.hub.transactionOnEvents[T].id = pre.hub.transactionOnErrors[T].id

(***************************************************************************)
(* C19.  On a hub that has its peer address and that a disconnect has left *)
(* disconnected, connect() marks the hub connected on a stream it opens    *)
(* and writes a register request to that stream; and the hub then stays    *)
(* connected on it, with the listeners registered since, when the timeout  *)
(* expires that was armed with the stream disconnected before: blocks that *)
(* arrive on the new stream still find those listeners.                    *)
(***************************************************************************)
C19_HubReusableAfterDisconnect ==
  /\ ( /\ op.name = "connect"
       /\ pre.hub.ep
       /\ ~pre.hub.connected
       /\ pre.hub.stream # 0
       /\ pre.streams[pre.hub.stream].ended ) =>
       /\ op.exc = NoExc
       /\ hub.connected
       /\ hub.stream = Len(pre.streams) + 1
       /\ ~streams[hub.stream].ended
       /\ \E i \in DOMAIN log : log[i] = <<"write", hub.stream, "register", FALSE>>
  /\ ( /\ op.name = "timeout"
       /\ pre.hub.connected
       /\ op.s # pre.hub.stream
       /\ pre.streams[op.s].ended
       /\ ~pre.streams[pre.hub.stream].ended ) =>
       /\ hub.connected
       /\ RegisteredIds(Now) = RegisteredIds(pre)
       /\ ~streams[hub.stream].ended

(***************************************************************************)
(* C20.  A register or unregister method called without one of its         *)
(* required arguments throws, on a connected and on a disconnected hub     *)
(* alike, and has no other effect: no registry and no counter changes, no  *)
(* callback is invoked, no stream is opened or written to.                 *)
(***************************************************************************)
C20_ValidationFirst ==
  op.key \in MissingArguments =>
    /\ op.exc # NoExc
    /\ log = <<>>
    /\ Now = pre

\* registerBlockEvent is called without onEvent, with an onError, on a hub
\* that was disconnected and holds a listener
C20_Witness ==
  /\ op.name = "registerBlockEvent"
  /\ op.key = "!onEvent"
  /\ op.er = "ret"
  /\ pre.hub.ep
  /\ ~pre.hub.connected
  /\ pre.hub.stream # 0
  /\ RegisteredIds(pre) # {}
  /\ op.exc = "Missing onEvent parameter"

(***************************************************************************)
(* What the properties of the decoder speak of: the warnings a call has    *)
(* written, the messages it has parsed, the policy decodeConfigPolicy was  *)
(* called with, and the policies of the block decode was called with.      *)
(***************************************************************************)
Warnings == SelectSeq(log, LAMBDA e : e[1] = "warn")
Parsed == SelectSeq(log, LAMBDA e : e[1] = "parse")
PolicyGiven == op.event.block[1].policies[1]
KnownPolicyType(p) == p.defined /\ p.type \in DOMAIN PolicyType
PoliciesGiven ==
  {op.event.block[i].policies[j] : <<i, j>> \in
     {x \in (DOMAIN op.event.block) \X (1..MaxPolicies) : x[2] <= Len(op.event.block[x[1]].policies)}}

(***************************************************************************)
(* C21.  Block.decode called with an input that is not a Buffer throws     *)
(* 'Block input data is not a byte buffer', has parsed nothing of the      *)
(* input when it throws, and hands back no block.                          *)
(***************************************************************************)
C21_NotAByteBuffer ==
  (op.name = "decode" /\ op.key # "Buffer") =>
    /\ op.exc = "Block input data is not a byte buffer"
    /\ Parsed = <<>>
    /\ out = NoOutput

\* decode was called with a Uint8Array whose bytes are those of a block with
\* a configuration envelope
C21_Witness ==
  /\ op.name = "decode"
  /\ op.key = "Uint8Array"
  /\ op.event.block[1].type = "Block"
  /\ Len(op.event.block) = 2
  /\ op.event.block[2].type = "CONFIG"
  /\ op.exc = "Block input data is not a byte buffer"

(***************************************************************************)
(* C22.  The policy decoder warns exactly when the policy type is MSP.     *)
(* decodeConfigPolicy of a policy of type MSP does not throw and writes    *)
(* one warning, which names MSP; of a policy of type IMPLICIT_META it does *)
(* not throw and writes no warning; and no call of it on any other policy  *)
(* writes a warning.  A block that decode has decoded has drawn as many    *)
(* warnings as it holds MSP policies, at least one if it holds any.        *)
(***************************************************************************)
C22_WarningExactlyForMSP ==
  /\ op.name = "decodeConfigPolicy" =>
       /\ (PolicyGiven.defined /\ PolicyGiven.type = 2) =>
            /\ op.exc = NoExc
            /\ out.returned
            /\ Warnings = <<(<<"warn", "MSP">>)>>
       /\ (PolicyGiven.defined /\ PolicyGiven.type = 3) =>
            /\ op.exc = NoExc
            /\ out.returned
            /\ Warnings = <<>>
       /\ ~(PolicyGiven.defined /\ PolicyGiven.type = 2) => Warnings = <<>>
  /\ (op.name = "decode" /\ out.returned) =>
       /\ Warnings # <<>> <=> \E p \in PoliciesGiven : p.defined /\ p.type = 2
       /\ \A i \in DOMAIN Warnings : Warnings[i] = <<"warn", "MSP">>

\* decodeConfigPolicy was called with a policy of type MSP and has returned
C22_Witness ==
  /\ op.name = "decodeConfigPolicy"
  /\ PolicyGiven.defined
  /\ PolicyGiven.type = 2
  /\ out.returned
  /\ Len(Warnings) = 1

(***************************************************************************)
(* C23.  decodeConfigPolicy of a policy whose type is none of SIGNATURE,   *)
(* MSP, IMPLICIT_META, or is not set, throws 'Unknown Policy type' and     *)
(* hands back nothing, and it has decoded nothing as if the type were a    *)
(* known one: it has parsed no policy and written no warning.  decode of   *)
(* a block that holds such a policy hands back no block.                   *)
(***************************************************************************)
C23_UnknownPolicyType ==
  /\ (op.name = "decodeConfigPolicy" /\ ~KnownPolicyType(PolicyGiven)) =>
       /\ op.exc = "Unknown Policy type"
       /\ out = NoOutput
       /\ log = <<>>
  /\ (op.name = "decode" /\ \E p \in PoliciesGiven : ~KnownPolicyType(p)) =>
       /\ op.exc # NoExc
       /\ out = NoOutput

\* decodeConfigPolicy was called with a policy whose type is not set
C23_Witness ==
  /\ op.name = "decodeConfigPolicy"
  /\ ~PolicyGiven.defined
  /\ op.exc = "Unknown Policy type"

\* the ids of the chaincode listeners that the envelope env carries an event for
ListenersOf(st, env) ==
  {st.sets[st.hub.chaincodeRegistrants[env.chaincode_id]][i].id :
     i \in Matching(st, env.chaincode_id, env.event_name)}

\* envelope i of the block is a transaction whose event is of a chaincode id
\* without registration
Unregistered(st, block, i) ==
  /\ block[i].type = "ENDORSER_TRANSACTION"
  /\ block[i].actions > 0
  /\ block[i].chaincode_id \notin DOMAIN st.hub.chaincodeRegistrants

(***************************************************************************)
(* C24.  Where no onEvent throws, for a block that arrives on the stream   *)
(* of a connected hub: when an envelope of the block carries an event of a *)
(* chaincode id that has no registration, the chaincode listeners matching *)
(* a later ENDORSER_TRANSACTION envelope of the same block are invoked all *)
(* the same.                                                               *)
(***************************************************************************)
C24_EveryEnvelopeExamined ==
  (BlockDispatched /\ NoThrowingListener(pre) /\ pre.hub.connected /\ op.s = pre.hub.stream) =>
    \A i, j \in DOMAIN op.event.block :
      ( /\ i < j
        /\ Unregistered(pre, op.event.block, i)
        /\ op.event.block[j].type = "ENDORSER_TRANSACTION" ) =>
        \A id \in ListenersOf(pre, op.event.block[j]) : EventCalls(id) >= 1

\* the envelopes of the block from which no chaincode event can be
\* extracted: transactions without actions
Failing(block) ==
  {i \in DOMAIN block : block[i].type = "ENDORSER_TRANSACTION" /\ block[i].actions = 0}

\* the block without those envelopes
WithoutFailing(block) ==
  SelectSeq(block, LAMBDA env : ~(env.type = "ENDORSER_TRANSACTION" /\ env.actions = 0))

\* the calls of chaincode listeners among the entries of a log
ChaincodeCalls(st, l) ==
  SelectSeq(l, LAMBDA e : e[1] = "evt" /\ e[2] \in {cbe.id : cbe \in ChaincodeListeners(st)})

\* the hub as the handler found it
Before ==
  [Start EXCEPT !.hub = pre.hub, !.sets = pre.sets, !.streams = pre.streams]

\* no choice of the environment bears on the chaincode pass
NoChoice == [ord |-> [i \in 1..MaxListeners |-> i], state |-> READY, ub |-> "live"]

(***************************************************************************)
(* C25.  When a block holds envelopes from which no chaincode event can be *)
(* extracted, the error of the extraction does not leave the data handler, *)
(* and, unless a callback's own error has left it, the chaincode listeners *)
(* are invoked for the other envelopes just as the chaincode pass invokes  *)
(* them for the block without the failing envelopes.                       *)
(***************************************************************************)
C25_ExtractionFailureConfined ==
  (BlockDispatched /\ Failing(op.event.block) # {}) =>
    /\ op.exc # "TypeError"
    /\ op.exc # "CallbackError" =>
         ChaincodeCalls(pre, log) =
           ChaincodeCalls(pre, _processChainCodeOnEvents(Before, WithoutFailing(op.event.block),
                                                         NoChoice, 0).log)

\* a block arrived whose first envelope is a transaction without actions and
\* whose second carries an event for a chaincode listener, which was invoked
C25_Witness ==
  /\ BlockDispatched
  /\ Len(op.event.block) = 2
  /\ Failing(op.event.block) = {1}
  /\ ListenersOf(pre, op.event.block[2]) # {}
  /\ \A id \in ListenersOf(pre, op.event.block[2]) : EventCalls(id) = 1
  /\ \E i \in DOMAIN log : log[i] = <<"caught", "TypeError">>
  /\ op.exc = NoExc

\* the handler ran for a signal of a stream that the hub had ended and that
\* was not the stream of the hub, which was connected on another, open one
OnReplacedStream ==
  /\ pre.hub.connected
  /\ op.s # pre.hub.stream
  /\ pre.streams[op.s].ended
  /\ ~pre.streams[pre.hub.stream].ended

(***************************************************************************)
(* C26.  When a stream that the hub has ended, and that is no longer the   *)
(* hub's stream, emits 'end' or 'error' while the hub is connected on      *)
(* another stream, the hub stays connected on that stream, the stream is   *)
(* not ended, no onError is invoked and no listener is removed.            *)
(***************************************************************************)
C26_ReplacedStreamSignalIgnored ==
  (op.name \in {"end", "error"} /\ OnReplacedStream) =>
    /\ hub.connected
    /\ hub.stream = pre.hub.stream
    /\ ~streams[hub.stream].ended
    /\ ~LogHas("err")
    /\ RegisteredIds(Now) = RegisteredIds(pre)

(***************************************************************************)
(* C27.  When the hub is connected on a stream that has received a message *)
(* (which cleared the timeout armed with it), the expiry of a timeout      *)
(* armed with an earlier stream does not run disconnect(): the hub stays   *)
(* connected on its stream, no listener is closed, the stream is not       *)
(* ended.                                                                  *)
(***************************************************************************)
C27_EarlierTimeoutHarmless ==
  ( /\ op.name = "timeout"
    /\ pre.hub.connected
    /\ op.s < pre.hub.stream
    /\ ~pre.streams[pre.hub.stream].timer
    /\ ~pre.streams[pre.hub.stream].ended ) =>
    /\ hub.connected
    /\ ~LogHas("close")
    /\ ~LogHas("end")
    /\ ~streams[hub.stream].ended

(***************************************************************************)
(* C28.  A block reaches listeners only if it arrives on the stream of the *)
(* hub while the hub is connected and has not ended the stream: a block    *)
(* that arrives on another stream, or on a stream the hub has ended, or    *)
(* while the hub is disconnected, invokes no onEvent.                      *)
(***************************************************************************)
C28_BlocksOnlyFromCurrentStream ==
  ( /\ BlockDispatched
    /\ ~( /\ pre.hub.connected
          /\ op.s = pre.hub.stream
          /\ ~pre.streams[op.s].ended ) ) =>
    ~LogHas("evt")

\* the streams the handler has opened
Opened == {i \in DOMAIN log : log[i][1] = "open"}

(***************************************************************************)
(* C29.  No handler opens more than one stream.  Apart from connect(), a   *)
(* handler opens a stream only if it is a register call that was given an  *)
(* onError: a stream's 'end', 'error' and messages, the expiry of a        *)
(* timeout, disconnect(), the unregister calls and the register calls      *)
(* without onError open none.                                              *)
(***************************************************************************)
C29_ReconnectOnlyByRegistration ==
  /\ Cardinality(Opened) <= 1
  /\ Len(streams) <= Len(pre.streams) + 1
  /\ (Opened # {} \/ Len(streams) > Len(pre.streams)) =>
       \/ op.name = "connect"
       \/ op.name \in RegisterOps /\ op.er \notin {"none", Missing}

\* a register call with an onError, made on a connected hub whose channel is
\* not READY, has opened a second stream
C29_Witness ==
  /\ op.name \in RegisterOps
  /\ op.er = "ret"
  /\ pre.hub.connected
  /\ Cardinality(Opened) = 1
  /\ Len(streams) = Len(pre.streams) + 1
  /\ op.exc = NoExc

(***************************************************************************)
(* C30.  The writes of a handler keep the order of a stream's life: a      *)
(* register request is written only to the stream just opened, as its      *)
(* first write; an unregister request is written only to a stream that has *)
(* not been ended, and the end of that stream follows it at once; so no    *)
(* stream gets a second unregister request, or any write after its end.    *)
(***************************************************************************)
C30_WritesInOrder ==
  \A i \in DOMAIN log :
    log[i][1] = "write" =>
      /\ ~log[i][4]
      /\ log[i][3] = "register" => (i > 1 /\ log[i - 1] = <<"open", log[i][2]>>)
      /\ log[i][3] = "unregister" => (i < Len(log) /\ log[i + 1] = <<"end", log[i][2], FALSE>>)

\* no listener is registered in st
NoListeners(st) == RegisteredIds(st) = {} /\ ErrorIds(st) = {}

\* the hub has a stream it has not ended
HasLiveStream(st) == st.hub.stream # 0 /\ ~st.streams[st.hub.stream].ended

(***************************************************************************)
(* C31.  disconnect() on a hub with a stream, when the unregister request  *)
(* cannot be signed, still ends the stream and throws nothing.             *)
(***************************************************************************)
C31_UnregisterBestEffort ==
  ( /\ op.name = "disconnect"
    /\ HasLiveStream(pre)
    /\ ~pre.hub.signing
    /\ NoListeners(pre) ) =>
    /\ op.exc = NoExc
    /\ streams[pre.hub.stream].ended

\* an onError registered in st throws when it is invoked
ThrowingOnError(st) ==
  \/ \E k \in DOMAIN st.hub.blockOnErrors : st.hub.blockOnErrors[k].b = "throw"
  \/ \E k \in DOMAIN st.hub.transactionOnErrors : st.hub.transactionOnErrors[k].b = "throw"
  \/ \E sid \in DOMAIN st.sets : \E i \in DOMAIN st.sets[sid] :
       st.sets[sid][i].id # 0 /\ st.sets[sid][i].onError = "throw"

\* the listeners whose onError the handler has invoked
ErrorsInvoked == {log[i][2] : i \in {j \in DOMAIN log : log[j][1] = "err"}}

(***************************************************************************)
(* C32.  disconnect() on a hub with a stream, when a registered onError    *)
(* throws: every registered onError is invoked all the same, the three     *)
(* registries end empty and the stream is ended.                           *)
(***************************************************************************)
C32_ClosingSurvivesThrow ==
  ( /\ op.name = "disconnect"
    /\ HasLiveStream(pre)
    /\ pre.hub.signing
    /\ ThrowingOnError(pre) ) =>
    /\ ErrorsInvoked = ErrorIds(pre)
    /\ NoListeners(Now)
    /\ streams[pre.hub.stream].ended

\* the streams the handler has opened and left
NewStreams == DOMAIN streams \ DOMAIN pre.streams

(***************************************************************************)
(* C37.  A connect() that throws after the peer address was found set      *)
(* leaves the hub disconnected: the connected flag is false, and a stream  *)
(* the call has opened is ended, with no registration timeout armed.       *)
(***************************************************************************)
C37_FailedConnectLeavesDisconnected ==
  ( /\ op.name = "connect"
    /\ pre.hub.ep
    /\ op.exc # NoExc ) =>
    /\ ~hub.connected
    /\ \A s \in NewStreams : streams[s].ended /\ ~streams[s].timer

\* the three registries are as the handler found them
RegistriesUnchanged ==
  /\ hub.blockOnEvents = pre.hub.blockOnEvents
  /\ hub.blockOnErrors = pre.hub.blockOnErrors
  /\ hub.transactionOnEvents = pre.hub.transactionOnEvents
  /\ hub.transactionOnErrors = pre.hub.transactionOnErrors
  /\ hub.chaincodeRegistrants = pre.hub.chaincodeRegistrants
  /\ sets = pre.sets

MessageReceived(kinds) == op.name = "data" /\ op.event.Event \in kinds

(***************************************************************************)
(* C35.  A register acknowledgment, or a message of a type the hub does    *)
(* not know, leaves the connected flag and the three registries as they    *)
(* were and invokes no callback.  An unregister message runs disconnect()  *)
(* exactly when the connected flag is set: then the flag is cleared, the   *)
(* onErrors are invoked and the registries emptied; otherwise nothing is   *)
(* closed and the flag and the registries are as they were.                *)
(***************************************************************************)
C35_ControlMessages ==
  /\ MessageReceived({"register", "other"}) =>
       /\ hub.connected = pre.hub.connected
       /\ RegistriesUnchanged
       /\ ~LogHas("evt") /\ ~LogHas("err") /\ ~LogHas("close")
       /\ op.exc = NoExc
  /\ MessageReceived({"unregister"}) =>
       /\ LogHas("close") <=> pre.hub.connected
       /\ pre.hub.connected =>
            /\ ~hub.connected
            /\ ErrorsInvoked = ErrorIds(pre)
            /\ ErrorIds(Now) = {}
       /\ ~pre.hub.connected =>
            /\ ~hub.connected
            /\ RegistriesUnchanged
            /\ ~LogHas("err")

\* an unregister message has reached a connected hub with a listener that
\* gave an onError, and a register acknowledgment is no such case
C35_Witness ==
  /\ MessageReceived({"unregister"})
  /\ pre.hub.connected
  /\ ErrorIds(pre) # {}
  /\ ErrorsInvoked = ErrorIds(pre)
  /\ ~hub.connected

(***************************************************************************)
(* C36.  A block that cannot be decoded reaches no listener: the handler   *)
(* of the message invokes no onEvent and no onError, and leaves the        *)
(* connected flag, the stream of the hub, the registries and the state of  *)
(* every stream but for the cleared timeout as they were, so that the hub  *)
(* meets the next block as it would have met this one.                     *)
(***************************************************************************)
C36_UndecodableBlockDropped ==
  (BlockDispatched /\ Garbled(op.event.block)) =>
    /\ ~LogHas("evt") /\ ~LogHas("err") /\ ~LogHas("close")
    /\ hub = pre.hub
    /\ sets = pre.sets
    /\ streams = [pre.streams EXCEPT ![op.s].timer = FALSE]

\* a block that cannot be decoded has come to a connected hub, on its
\* stream, with a block listener registered
C36_Witness ==
  /\ BlockDispatched /\ Garbled(op.event.block)
  /\ pre.hub.connected
  /\ op.s = pre.hub.stream
  /\ ~pre.streams[op.s].ended
  /\ DOMAIN pre.hub.blockOnEvents # {}
  /\ op.exc = "Block decode has failed"
  /\ hub.connected

\* the calls of unregister methods that callbacks made under the handler,
\* and the listeners they removed
Unregs == {i \in DOMAIN log : log[i][1] = "unreg"}
Removed == {log[i][2] : i \in Unregs} \ {0}

\* every call a callback made into the hub under the handler was an
\* unregistration that either found nothing to remove or removed another
\* listener than the one whose onEvent made the call, one whose onEvent the
\* handler had not invoked before
OnlyRemovesListenersNotYetInvoked ==
  /\ ~LogHas("reg")
  /\ \A i \in Unregs :
       /\ log[i][2] # log[i - 1][2]
       /\ \A j \in 1..(i - 1) : log[j] # <<"evt", log[i][2]>>

AddedInChaincodePass ==
  {log[i][2] : i \in {j \in DOMAIN log :
     /\ log[j][1] = "reg"
     /\ log[j - 1][1] = "evt"
     /\ log[j - 1][2] \notin BlockDue(pre)}}

(***************************************************************************)
(* C34.  A chaincode listener that the onEvent of a chaincode listener     *)
(* registers while a block is dispatched is not invoked in the chaincode   *)
(* pass of that block, so that registering from callbacks cannot keep the  *)
(* pass from ending.                                                       *)
(***************************************************************************)
C34_AddedListenerWaits ==
  BlockDispatched => \A id \in AddedInChaincodePass : EventCalls(id) = 0

\* every register call made so far gave an enrollment id that is not the
\* name of the member
OnlyMismatchedRegistrations ==
  /\ services.calls # <<>>
  /\ \A i \in DOMAIN services.calls : services.calls[i].enrollmentID # member._name

(***************************************************************************)
(* C38.  While every register call made gave an enrollment id other than   *)
(* the name of the member: the promise of each is rejected, the member     *)
(* services have been sent nothing, the member holds no enrollment secret  *)
(* and nothing is stored in the key value store.                           *)
(***************************************************************************)
C38_MismatchedRegisterHasNoEffect ==
  OnlyMismatchedRegistrations =>
    /\ \A i \in DOMAIN services.calls : services.calls[i].promise = "rejected" /\ ~services.calls[i].waiting
    /\ services.requests = 0
    /\ member._enrollmentSecret = ""
    /\ services.store = NoValue

(***************************************************************************)
(* C39.  A FabricCAClient built from valid connect_opts uses the module of *)
(* the protocol given, https for 'https' and http for 'http'; when no port *)
(* is given its port is 443 for 'https' and 80 for 'http'; and the         *)
(* connect_opts object of the caller is as the caller made it.             *)
(***************************************************************************)
C39_TransportFollowsProtocol ==
  (ca.built /\ ca.exc = NoExc) =>
    /\ ca._httpClient = ca.given.protocol
    /\ ~Truthy(ca.given.port) =>
         ca._port = IF ca.given.protocol = "https" THEN Port("number", 443) ELSE Port("number", 80)
    /\ ca.opts = ca.given

=============================================================================
